---- MODULE Spec2Model ----
(***************************************************************************)
(* Carousel relation/synchronization engine of the theme:                  *)
(*   - src/assets/theme-global.js (second IIFE, lines 456-902): instance   *)
(*     registry, relation wiring, logical-index mapper, throttle,          *)
(*     fullscreen presenter;                                                *)
(*   - src/unnamed/part_000: the gallery variant with the axis             *)
(*     reinitializer.                                                       *)
(* The slide-viewport engine (Swiper) is an external collaborator: an      *)
(* instance is modelled by the fields the theme code reads and writes.     *)
(***************************************************************************)
EXTENDS Integers, Sequences, FiniteSets, TLC

None == "none"

\* ------------------------------------------------------------------------
\* Small helpers
\* ------------------------------------------------------------------------
InSeq(x, s) == \E i \in 1..Len(s) : s[i] = x

Min2(a, b) == IF a <= b THEN a ELSE b

Max2(a, b) == IF a >= b THEN a ELSE b

\* ------------------------------------------------------------------------
\* Variables
\* ------------------------------------------------------------------------
VARIABLES
  \* --- registry and wiring (theme-global.js 457, 726-866) ---
  present,      \* hosts currently in the document
  docOrder,     \* document order of the hosts (querySelectorAll order)
  moPending,    \* a childList mutation record waits for the MutationObserver
  INST,         \* Map host -> instance: the hosts that have an instance
  MASTERS,      \* Map group id -> master instance
  SLAVES,       \* Map group id -> array of follower instances
  PAIRED,       \* Set of wired group ids
  created,      \* host -> number of engine instances constructed on it
  driveSubs,    \* instance -> number of drive handlers on one master event
  clickSubs,    \* instance -> number of follower click handlers
  wireCount,    \* group id -> number of wirePair runs
  lastCall,     \* the last registry operation and its argument
  lastEvent     \* the last master event: its instance and the drive passes it ran

regVars == <<present, docOrder, moPending, INST, MASTERS, SLAVES, PAIRED,
             created, driveSubs, clickSubs, wireCount, lastCall, lastEvent>>

VARIABLES
  \* --- gallery variant with the axis reinitializer (part_000) ---
  gCfg,           \* markup of the gallery: wrappers, thumbs host, options, slide attributes
  width,          \* window.innerWidth
  lastDirection,  \* part_000 181
  resizeTimer,    \* the debounced resize check is pending
  instances,      \* Map gallery id -> {main, thumbs, mainHost, thumbsHost}
  pool,           \* every engine instance constructed so far, by handle 1..Len
  rafQueue,       \* pending animation-frame rebuild closures, oldest first
  lastRebuild,    \* what the last completed rebuild captured and produced
  lastAxisCall    \* the step just taken: the debounced check, a direct reinit, or other

axisVars == <<gCfg, width, lastDirection, resizeTimer, instances, pool, rafQueue,
              lastRebuild, lastAxisCall>>

VARIABLES
  \* --- fullscreen presenter (theme-global.js 600-706) ---
  children,      \* parent node -> its child nodes, in sibling order
  origParent,    \* el.__origParent (None when not recorded)
  origNext,      \* el.__origNext (None for null or not recorded)
  fsClass,       \* elements carrying the class is-fullscreen
  bodyCls,       \* classes on document.body
  overlays,      \* ids whose .swiper-overlay element is in the document
  swiperId,      \* element -> dataset.swiperId
  escListeners,  \* keydown listeners on document, oldest first, by their closure's sw
  escHandler,    \* document._swiperEscHandler is set (it is the newest listener)
  preOpen,       \* the sibling lists when the running relocation started
  lastFs,        \* the last fullscreen call: branch taken and instance
  lastRestore    \* what the last close put back: element, anchor, siblings before and after

fsVars == <<children, origParent, origNext, fsClass, bodyCls, overlays, swiperId,
            escListeners, escHandler, preOpen, lastFs, lastRestore>>

VARIABLES
  \* --- one throttled function, throttle(fn, wait) (theme-global.js 464) ---
  now,        \* performance.now()
  thrT,       \* t: time of the last invocation of fn
  thrTo,      \* to: handle of the timer set last (0 before the first)
  thrLast,    \* last: arguments of the most recent call
  thrTimers,  \* pending timers: handle, due time, and the t they were set under
  thrDirty,   \* a deferred call has not been followed by an invocation yet
  thrWin,     \* bookkeeping of the running window: its start, the calls that
              \* arrived in it, the invocations made for it, how it was opened
  lastInv     \* the last invocation of fn

thrVars == <<now, thrT, thrTo, thrLast, thrTimers, thrDirty, thrWin, lastInv>>

VARIABLES
  \* --- one wired pair: a master and one follower ---
  fMarkup,      \* the follower's slides as authored: slide-index attribute or none
  fWatch,       \* the follower's options turn slide watching on
  mOffset,      \* the master's scroll offset (-translate)
  fOffset,      \* the follower's scroll offset
  fVisibleCls,  \* follower slides carrying swiper-main-visible
  fActiveCls,   \* follower slides carrying swiper-main-active
  syncing,      \* the follower is in SYNCING
  syncTimers,   \* pending SYNCING.delete timers, oldest first: ms left
  fScrollRem,   \* ms left of the follower's programmatic scroll
  lastDrive,    \* the drive pass of the step just taken, if it ran one
  lastClick     \* the click of the step just taken, if it was one

driveVars == <<fMarkup, fWatch, mOffset, fOffset, fVisibleCls, fActiveCls, syncing,
               syncTimers, fScrollRem, lastDrive, lastClick>>

VARIABLES
  \* --- one wait-for-engine poll (whenSwiperReady / whenReady) ---
  swiperLoaded,  \* window.Swiper is defined
  pollLimit,     \* the attempt cap of the poll's variant
  poll           \* tries, whether a call is due, callback and warning counts

pollVars == <<swiperLoaded, pollLimit, poll>>

VARIABLES
  \* --- one host's configuration attribute, read at registration ---
  cfgIn,   \* variant, data-swiper-options, viewport width, thumbs or main
  cfgOut   \* what registration did with it

cfgVars == <<cfgIn, cfgOut>>

VARIABLES
  \* --- stableUpdate on one instance (theme-global.js 488-495) ---
  updNow,        \* the time, in ticks
  updTimer,      \* sw._updTimer: handle of the timer set last (0 before the first)
  updTimers,     \* pending timers: handle and due time
  updDestroyed,  \* sw.destroyed
  updBurst,      \* the calls made since the last timer ran: count, time and delay of the last, a touch flag seen
  lastUpd        \* the last step: a call, or a timer that ran and what it did

updVars == <<updNow, updTimer, updTimers, updDestroyed, updBurst, lastUpd>>

VARIABLES
  \* --- the index helpers called on one instance (theme-global.js 513-561) ---
  mapSw,   \* the instance: slide attributes, scroll offset, loop, realIndex, destroyed
  mapOut   \* the last helper call: function, argument and what it returned

mapVars == <<mapSw, mapOut>>

VARIABLES
  \* --- the master's pending drive timer and its destruction ---
  mDestroyed,   \* master.destroyed
  driveTimer    \* setTimeout(drive, 90) of wirePair: "none" or "armed"

lateVars == <<mDestroyed, driveTimer>>

VARIABLES
  \* --- the drawers (theme-drawer.js) ---
  activeDrawer,   \* theme-drawer.js 56: the active drawer, or none
  drHidden,       \* drawer -> its hidden property
  drOpenCls,      \* the drawers carrying the class is-open
  drBodyLock,     \* the body carries has-drawer-open
  drTimers,       \* drawer -> pending 350 ms close fallback timers
  drListeners     \* drawer -> transitionend listeners left by closeDrawer

drawerVars == <<activeDrawer, drHidden, drOpenCls, drBodyLock, drTimers, drListeners>>

VARIABLES
  \* --- the cart section updater (part_001 209-239, theme-cart.js 183-213) ---
  cartSrv,       \* the server's cart: the number of changes it has applied
  cartRendered,  \* the cart state the rendered sections show
  isUpdating,    \* CartUpdater.isUpdating
  cartFetch,     \* the section fetch of the running update: phase and the state it carries
  cartAwait,     \* handlers waiting for the response of their CartAPI.change
  cartFailed     \* a section fetch has failed since the sections were last rendered

cartVars == <<cartSrv, cartRendered, isUpdating, cartFetch, cartAwait, cartFailed>>

vars == <<regVars, axisVars, fsVars, thrVars, driveVars, pollVars, cfgVars, updVars, mapVars, lateVars, drawerVars, cartVars>>

\* what each component leaves alone
notReg == <<axisVars, fsVars, thrVars, driveVars, pollVars, cfgVars, updVars, mapVars, lateVars, drawerVars, cartVars>>

notAxis == <<regVars, fsVars, thrVars, driveVars, pollVars, cfgVars, updVars, mapVars, lateVars, drawerVars, cartVars>>

notFs == <<regVars, axisVars, thrVars, driveVars, pollVars, cfgVars, updVars, mapVars, lateVars, drawerVars, cartVars>>

notFsNorReg == <<axisVars, thrVars, driveVars, pollVars, cfgVars, updVars, mapVars, lateVars, drawerVars, cartVars>>

\* the registry without the pending-mutation flag
regTables == <<present, docOrder, INST, MASTERS, SLAVES, PAIRED, created, driveSubs,
               clickSubs, wireCount, lastCall, lastEvent>>

notThr == <<regVars, axisVars, fsVars, driveVars, pollVars, cfgVars, updVars, mapVars, lateVars, drawerVars, cartVars>>

notDrive == <<regVars, axisVars, fsVars, thrVars, pollVars, cfgVars, updVars, mapVars, lateVars, drawerVars, cartVars>>

notPoll == <<regVars, axisVars, fsVars, thrVars, driveVars, cfgVars, updVars, mapVars, lateVars, drawerVars, cartVars>>

notCfg == <<regVars, axisVars, fsVars, thrVars, driveVars, pollVars, updVars, mapVars, lateVars, drawerVars, cartVars>>

notUpd == <<regVars, axisVars, fsVars, thrVars, driveVars, pollVars, cfgVars, mapVars, lateVars, drawerVars, cartVars>>

notMap == <<regVars, axisVars, fsVars, thrVars, driveVars, pollVars, cfgVars, updVars, lateVars, drawerVars, cartVars>>

notLate == <<regVars, axisVars, fsVars, thrVars, driveVars, pollVars, cfgVars, updVars, mapVars, drawerVars, cartVars>>

notDrawer == <<regVars, axisVars, fsVars, thrVars, driveVars, pollVars, cfgVars, updVars, mapVars, lateVars, cartVars>>

notCart == <<regVars, axisVars, fsVars, thrVars, driveVars, pollVars, cfgVars, updVars, mapVars, lateVars, drawerVars>>

notDriveNorLate == <<regVars, axisVars, fsVars, thrVars, pollVars, cfgVars, updVars, mapVars, drawerVars, cartVars>>

\* ------------------------------------------------------------------------
\* Hosts of the registry model (markup)
\* ------------------------------------------------------------------------
Hosts == {"m1", "f1", "f2", "solo", "bad"}

Groups == {"g1"}

\* data-swiper-id (theme-global.js 792)
HostId(h) == IF h = "m1" THEN "g1" ELSE ""

\* data-swiper-slave (theme-global.js 793)
SlaveOf(h) == IF h \in {"f1", "f2", "bad"} THEN "g1" ELSE ""

\* whether the host holds a [data-swiper-wrapper], .swiper-wrapper, ul or ol
HasWrapper(h) == h # "bad"

DocOrders == { <<"m1", "f1", "f2", "solo", "bad">>,
               <<"f1", "bad", "m1", "solo", "f2">>,
               <<"f2", "f1", "solo", "bad", "m1">> }

\* ------------------------------------------------------------------------
\* Registry operations, on a record of the registry's tables
\* ------------------------------------------------------------------------
Reg == [INST |-> INST, MASTERS |-> MASTERS, SLAVES |-> SLAVES, PAIRED |-> PAIRED,
        created |-> created, driveSubs |-> driveSubs, clickSubs |-> clickSubs,
        wireCount |-> wireCount]

ensureStructure_always(host) == TRUE

\* ensureStructure returns null exactly when no wrapper is found
ensureStructure(host) == HasWrapper(host)

\* wirePair: one click handler per follower of the array as it is now, and
\* one drive handler on each master event
wirePair(r, id, master, slaves) ==
  IF master = None \/ Len(slaves) = 0 THEN r
  ELSE [r EXCEPT !.clickSubs = [h \in Hosts |-> IF InSeq(h, slaves) THEN @[h] + 1 ELSE @[h]],
                 !.driveSubs[master] = @ + 1,
                 !.wireCount[id] = @ + 1]

tryWire_unguarded(r, id) ==
  IF id = "" THEN r
  ELSE LET m == r.MASTERS[id]
           s == r.SLAVES[id]
       IN IF m # None /\ Len(s) > 0
          THEN [wirePair(r, id, m, s) EXCEPT !.PAIRED = @ \cup {id}]
          ELSE r

tryWire(r, id) ==
  IF id = "" \/ id \in r.PAIRED THEN r
  ELSE LET m == r.MASTERS[id]
           s == r.SLAVES[id]
       IN IF m # None /\ Len(s) > 0
          THEN [wirePair(r, id, m, s) EXCEPT !.PAIRED = @ \cup {id}]
          ELSE r

\* on.init without the follower branch's tryWire(slaveOf)
onInit_noWireOnFollower(r, host) ==
  LET r1 == [r EXCEPT !.INST = @ \cup {host}]
      id == HostId(host)
      slaveOf == SlaveOf(host)
  IN IF slaveOf # ""
     THEN LET list == r1.SLAVES[slaveOf]
          IN [r1 EXCEPT !.SLAVES[slaveOf] = IF InSeq(host, list) THEN list
                                            ELSE Append(list, host)]
     ELSE IF id # ""
          THEN tryWire([r1 EXCEPT !.MASTERS[id] = host], id)
          ELSE r1

\* opts.on.init(sw): runs inside the constructor
onInit(r, host) ==
  LET r1 == [r EXCEPT !.INST = @ \cup {host}]
      id == HostId(host)
      slaveOf == SlaveOf(host)
  IN IF slaveOf # ""
     THEN LET list == r1.SLAVES[slaveOf]
              list2 == IF InSeq(host, list) THEN list ELSE Append(list, host)
          IN tryWire([r1 EXCEPT !.SLAVES[slaveOf] = list2], slaveOf)
     ELSE IF id # ""
          THEN tryWire([r1 EXCEPT !.MASTERS[id] = host], id)
          ELSE r1

\* initOne without the INST.has(host) return
initOne_noInstGuard(r, host) ==
  IF ~ensureStructure(host) THEN r
  ELSE onInit([r EXCEPT !.created[host] = @ + 1], host)

initOne(r, host) ==
  IF host \in r.INST THEN r
  ELSE IF ~ensureStructure(host) THEN r
  ELSE onInit([r EXCEPT !.created[host] = @ + 1], host)

\* init(root): initOne on every matching host, in document order
RECURSIVE initAllHosts(_, _)
initAllHosts(r, hs) ==
  IF hs = <<>> THEN r ELSE initAllHosts(initOne(r, Head(hs)), Tail(hs))

PresentInOrder == SelectSeq(docOrder, LAMBDA h : h \in present)

SetReg(r) ==
  /\ INST' = r.INST
  /\ MASTERS' = r.MASTERS
  /\ SLAVES' = r.SLAVES
  /\ PAIRED' = r.PAIRED
  /\ created' = r.created
  /\ driveSubs' = r.driveSubs
  /\ clickSubs' = r.clickSubs
  /\ wireCount' = r.wireCount

\* ------------------------------------------------------------------------
\* Registry actions
\* ------------------------------------------------------------------------
InitReg ==
  /\ present = {}
  /\ docOrder \in DocOrders
  /\ moPending = FALSE
  /\ INST = {}
  /\ MASTERS = [g \in Groups |-> None]
  /\ SLAVES = [g \in Groups |-> <<>>]
  /\ PAIRED = {}
  /\ created = [h \in Hosts |-> 0]
  /\ driveSubs = [h \in Hosts |-> 0]
  /\ clickSubs = [h \in Hosts |-> 0]
  /\ wireCount = [g \in Groups |-> 0]
  /\ lastCall = <<"none", None>>
  /\ lastEvent = [host |-> None, drives |-> 0, wired |-> FALSE]

\* a host is inserted into the document (section load, editor, script)
InsertHost(h) ==
  /\ h \notin present
  /\ present' = present \cup {h}
  /\ moPending' = TRUE
  /\ lastCall' = <<"insert", h>>
  /\ UNCHANGED <<docOrder, INST, MASTERS, SLAVES, PAIRED, created, driveSubs,
                 clickSubs, wireCount, lastEvent>>
  /\ UNCHANGED notReg

\* the MutationObserver callback: init(document)
MutationPass ==
  /\ moPending
  /\ moPending' = FALSE
  /\ SetReg(initAllHosts(Reg, PresentInOrder))
  /\ lastCall' = <<"init", None>>
  /\ UNCHANGED <<present, docOrder, lastEvent>>
  /\ UNCHANGED notReg

\* ThemeSwiper.init() from the content-ready signal or a caller
InitPass ==
  /\ SetReg(initAllHosts(Reg, PresentInOrder))
  /\ lastCall' = <<"init", None>>
  /\ UNCHANGED <<present, docOrder, moPending, lastEvent>>
  /\ UNCHANGED notReg

\* a single registration attempt, register(host)
RegisterHost(h) ==
  /\ h \in present
  /\ SetReg(initOne(Reg, h))
  /\ lastCall' = <<"initOne", h>>
  /\ UNCHANGED <<present, docOrder, moPending, lastEvent>>
  /\ UNCHANGED notReg

\* the engine emits slideChange (or transitionEnd) on a registered instance
MasterEvent(h) ==
  /\ h \in INST
  /\ lastEvent' = [host |-> h, drives |-> driveSubs[h],
                   wired |-> HostId(h) \in PAIRED]
  /\ lastCall' = <<"event", h>>
  /\ UNCHANGED <<present, docOrder, moPending, INST, MASTERS, SLAVES, PAIRED,
                 created, driveSubs, clickSubs, wireCount>>
  /\ UNCHANGED notReg

NextReg ==
  \/ \E h \in Hosts : InsertHost(h)
  \/ MutationPass
  \/ InitPass
  \/ \E h \in Hosts : RegisterHost(h)
  \/ \E h \in Hosts : MasterEvent(h)

\* ------------------------------------------------------------------------
\* Gallery variant (part_000): one gallery "gal" with main host "gm" and,
\* optionally, thumbs host "gt"
\* ------------------------------------------------------------------------
NSlides == 3

MaxInst == 6

MaxRaf == 2

BREAKPOINT == 960

Widths == {800, 960, 1200}

getDirection(w) == IF w >= BREAKPOINT THEN "vertical" ELSE "horizontal"

\* data-swiper-slide-index of each slide as written in the markup: <<>> when
\* the attribute is absent, <<v>> when it is present
PlainMarkup == [i \in 1..NSlides |-> <<>>]

ReversedMarkup == [i \in 1..NSlides |-> <<NSlides - i>>]

\* prepareHost: a slide without the attribute gets its document position
prepareHostIdx(markup) ==
  [i \in 1..Len(markup) |-> IF markup[i] = <<>> THEN i - 1 ELSE markup[i][1]]

GCfgs == [mainWrap : BOOLEAN, thumbs : {"none", "ok", "nowrap"},
          initialSlide : {0, NSlides - 1}, markup : {PlainMarkup, ReversedMarkup}]

\* prepareHost(host) finds a wrapper
prepareHost(cfg, host) == IF host = "gm" THEN cfg.mainWrap ELSE cfg.thumbs = "ok"

\* document.querySelector('[data-swiper-slave="id"]')
thumbsHostOf(cfg) == IF cfg.thumbs = "none" THEN None ELSE "gt"

\* the engine after destroy(true, true): its properties are deleted
Destroyed(inst) == [host |-> inst.host, direction |-> "", activeIndex |-> -1,
                    destroyed |-> TRUE]

\* createSwiper: null (handle 0) without a wrapper, else a new engine instance
\* with the current direction; the options blob is passed through, so the
\* main instance starts at its initialSlide
createSwiper(p, cfg, host, w) ==
  IF ~prepareHost(cfg, host) THEN [pool |-> p, sw |-> 0]
  ELSE [pool |-> Append(p, [host |-> host, direction |-> getDirection(w),
                            activeIndex |-> IF host = "gm"
                                            THEN Min2(cfg.initialSlide, NSlides - 1)
                                            ELSE 0,
                            destroyed |-> FALSE]),
        sw |-> Len(p) + 1]

\* sw.slideTo(i, 0)
slideTo(p, h, i) == [p EXCEPT ![h].activeIndex = Max2(0, Min2(i, NSlides - 1))]

\* sw.destroy(true, true) when sw && !sw.destroyed
destroyIfLive(p, h) ==
  IF h # 0 /\ ~p[h].destroyed THEN [p EXCEPT ![h] = Destroyed(p[h])] ELSE p

\* logical index of the slide the live instance h is positioned on
logicalAt(cfg, p, h) == prepareHostIdx(cfg.markup)[p[h].activeIndex + 1]

NoRecord == [set |-> FALSE, main |-> 0, thumbs |-> 0]

\* initGallery(mainHost)
initGallery(id) ==
  IF instances[id].set
  THEN UNCHANGED <<instances, pool>>
  ELSE LET th == thumbsHostOf(gCfg)
           t == IF th # None THEN createSwiper(pool, gCfg, th, width)
                ELSE [pool |-> pool, sw |-> 0]
           m == createSwiper(t.pool, gCfg, "gm", width)
       IN /\ pool' = m.pool
          /\ instances' = IF m.sw = 0 THEN instances
                          ELSE [instances EXCEPT ![id] =
                                  [set |-> TRUE, main |-> m.sw, thumbs |-> t.sw]]

\* reinitGallery(id)
reinitGallery_noDirectionGuard(id) ==
  LET rec == instances[id]
      main == rec.main
      live == main # 0 /\ ~pool[main].destroyed
      activeIndex == IF live THEN pool[main].activeIndex ELSE 0
  IN IF ~rec.set
     THEN UNCHANGED <<pool, rafQueue>>
     ELSE IF Len(rafQueue) >= MaxRaf
     THEN FALSE
     ELSE /\ pool' = destroyIfLive(destroyIfLive(pool, rec.thumbs), main)
          /\ rafQueue' = Append(rafQueue,
                                [id |-> id, activeIndex |-> activeIndex,
                                 K |-> IF live THEN logicalAt(gCfg, pool, main) ELSE -1])

reinitGallery(id) ==
  LET rec == instances[id]
      main == rec.main
      live == main # 0 /\ ~pool[main].destroyed
      currentDirection == IF live THEN pool[main].direction ELSE "undefined"
      newDirection == getDirection(width)
      activeIndex == IF live THEN pool[main].activeIndex ELSE 0
  IN IF ~rec.set \/ currentDirection = newDirection
     THEN UNCHANGED <<pool, rafQueue>>
     ELSE IF Len(rafQueue) >= MaxRaf
     THEN FALSE
     ELSE /\ pool' = destroyIfLive(destroyIfLive(pool, rec.thumbs), main)
          /\ rafQueue' = Append(rafQueue,
                                [id |-> id, activeIndex |-> activeIndex,
                                 K |-> IF live THEN logicalAt(gCfg, pool, main) ELSE -1])

InitAxis ==
  /\ gCfg \in GCfgs
  /\ width \in Widths
  /\ lastDirection = getDirection(width)
  /\ resizeTimer = FALSE
  /\ instances = [g \in {"gal"} |-> NoRecord]
  /\ pool = <<>>
  /\ rafQueue = <<>>
  /\ lastRebuild = [K |-> -1, exists |-> FALSE, primary |-> -1]
  /\ lastAxisCall = "other"

\* initAll(root): content-ready, shopify:section:load, ThemeSwiper.init
GInitAll ==
  /\ lastAxisCall' = "other"
  /\ Len(pool) + 2 <= MaxInst
  /\ initGallery("gal")
  /\ UNCHANGED <<gCfg, width, lastDirection, resizeTimer, rafQueue, lastRebuild>>
  /\ UNCHANGED notAxis

\* window resize: restart the debounce timer
Resize(w) ==
  /\ lastAxisCall' = "other"
  /\ w # width
  /\ width' = w
  /\ resizeTimer' = TRUE
  /\ UNCHANGED <<gCfg, lastDirection, instances, pool, rafQueue, lastRebuild>>
  /\ UNCHANGED notAxis

\* the debounced resize check
ResizeTimerFire ==
  /\ lastAxisCall' = "check"
  /\ resizeTimer
  /\ resizeTimer' = FALSE
  /\ IF getDirection(width) # lastDirection
     THEN /\ lastDirection' = getDirection(width)
          /\ reinitGallery("gal")
     ELSE UNCHANGED <<lastDirection, pool, rafQueue>>
  /\ UNCHANGED <<gCfg, width, instances, lastRebuild>>
  /\ UNCHANGED notAxis

\* ThemeSwiper.reinit(id)
ReinitCall ==
  /\ lastAxisCall' = "reinit"
  /\ reinitGallery("gal")
  /\ UNCHANGED <<gCfg, width, lastDirection, resizeTimer, instances, lastRebuild>>
  /\ UNCHANGED notAxis

\* the animation-frame callback of reinitGallery
RafFire ==
  /\ lastAxisCall' = "other"
  /\ rafQueue # <<>>
  /\ Len(pool) + 2 <= MaxInst
  /\ LET c == Head(rafQueue)
         th == thumbsHostOf(gCfg)
         t == IF th # None THEN createSwiper(pool, gCfg, th, width)
              ELSE [pool |-> pool, sw |-> 0]
         m == createSwiper(t.pool, gCfg, "gm", width)
         p2 == IF m.sw # 0 /\ c.activeIndex > 0
               THEN slideTo(m.pool, m.sw, c.activeIndex)
               ELSE m.pool
     IN /\ pool' = p2
        /\ instances' = [instances EXCEPT ![c.id] =
                           [set |-> TRUE, main |-> m.sw, thumbs |-> t.sw]]
        /\ lastRebuild' = [K |-> c.K,
                           exists |-> \E i \in 1..NSlides : prepareHostIdx(gCfg.markup)[i] = c.K,
                           primary |-> IF m.sw = 0 THEN -1 ELSE logicalAt(gCfg, p2, m.sw)]
  /\ rafQueue' = Tail(rafQueue)
  /\ UNCHANGED <<gCfg, width, lastDirection, resizeTimer>>
  /\ UNCHANGED notAxis

\* the user (or the thumbs module) moves the live main instance to slide i
Navigate(i) ==
  /\ lastAxisCall' = "other"
  /\ instances["gal"].set
  /\ instances["gal"].main # 0
  /\ ~pool[instances["gal"].main].destroyed
  /\ pool[instances["gal"].main].activeIndex # i
  /\ pool' = [pool EXCEPT ![instances["gal"].main].activeIndex = i]
  /\ UNCHANGED <<gCfg, width, lastDirection, resizeTimer, instances, rafQueue, lastRebuild>>
  /\ UNCHANGED notAxis

NextAxis ==
  \/ GInitAll
  \/ \E w \in Widths : Resize(w)
  \/ ResizeTimerFire
  \/ ReinitCall
  \/ RafFire
  \/ \E i \in 0..(NSlides - 1) : Navigate(i)

\* ------------------------------------------------------------------------
\* Fullscreen presenter (theme-global.js 600-706). The relation group g1 is
\* registered and wired: master m1, follower f1. X is any other sibling node.
\* ------------------------------------------------------------------------
FsEls == {"m1", "f1"}

\* the instances fullscreen is called on: the pair, and a host with neither
\* data-swiper-id nor data-swiper-slave
FsHosts == FsEls \cup {"solo"}

DomNodes == {"m1", "f1", "X"}

\* the two page containers, the content region of each overlay, and the place
\* of nodes that left the document with a removed overlay
PageParents == {"P", "Q"}

DomParents == {"P", "Q", "ov_g1", "ov_r_m1", "ov_r_f1", "ov_r_solo", "lost"}

\* 'swiper-' + Math.random()...: one fresh id per host without an id
randomId(host) == IF host = "m1" THEN "r_m1" ELSE IF host = "f1" THEN "r_f1" ELSE "r_solo"

\* .swiper-dialog__main of the overlay with data-swiper-id = id
regionOf(id) ==
  IF id = "g1" THEN "ov_g1" ELSE IF id = "r_m1" THEN "ov_r_m1"
  ELSE IF id = "r_f1" THEN "ov_r_f1" ELSE "ov_r_solo"

EmptyReg == [INST |-> {}, MASTERS |-> [g \in Groups |-> None],
             SLAVES |-> [g \in Groups |-> <<>>], PAIRED |-> {},
             created |-> [h \in Hosts |-> 0], driveSubs |-> [h \in Hosts |-> 0],
             clickSubs |-> [h \in Hosts |-> 0], wireCount |-> [g \in Groups |-> 0]]

\* the registry after init() found m1, f1 and solo
WiredReg == initAllHosts(EmptyReg, <<"m1", "f1", "solo">>)

Fs == [children |-> children, origParent |-> origParent, origNext |-> origNext,
       fsClass |-> fsClass, bodyCls |-> bodyCls, overlays |-> overlays,
       swiperId |-> swiperId, escListeners |-> escListeners,
       escHandler |-> escHandler, preOpen |-> preOpen, lastFs |-> lastFs,
       log |-> lastRestore,
       mo |-> moPending]

RemoveFrom(seq, x) == SelectSeq(seq, LAMBDA y : y # x)

\* el.parentElement
parentOf(ch, el) == CHOOSE p \in DomParents : InSeq(el, ch[p])

IndexOf(seq, x) == CHOOSE i \in 1..Len(seq) : seq[i] = x

\* el.nextSibling (None for null)
nextSibling(ch, el) ==
  LET sibs == ch[parentOf(ch, el)]
      i == IndexOf(sibs, el)
  IN IF i < Len(sibs) THEN sibs[i + 1] ELSE None

\* parent.appendChild(el): el leaves its parent and becomes the last child
appendChild(ch, parent, el) ==
  LET without == [p \in DomParents |-> RemoveFrom(ch[p], el)]
  IN [without EXCEPT ![parent] = Append(@, el)]

\* parent.insertBefore(el, ref) without the catch: a ref that is no child of
\* parent throws and el stays where it is
insertBeforeOrAppend_noCatch(ch, parent, el, ref) ==
  IF ref = None \/ ref = el THEN appendChild(ch, parent, el)
  ELSE IF ~InSeq(ref, ch[parent]) THEN ch
  ELSE LET without == [p \in DomParents |-> RemoveFrom(ch[p], el)]
           sibs == without[parent]
           i == IndexOf(sibs, ref)
       IN [without EXCEPT ![parent] =
             SubSeq(sibs, 1, i - 1) \o <<el>> \o SubSeq(sibs, i, Len(sibs))]

\* try { parent.insertBefore(el, ref) } catch { parent.appendChild(el) }:
\* a null ref appends, a ref that is no child of parent throws
insertBeforeOrAppend(ch, parent, el, ref) ==
  IF ref = None \/ ~InSeq(ref, ch[parent]) \/ ref = el
  THEN appendChild(ch, parent, el)
  ELSE LET without == [p \in DomParents |-> RemoveFrom(ch[p], el)]
           sibs == without[parent]
           i == IndexOf(sibs, ref)
       IN [without EXCEPT ![parent] =
             SubSeq(sibs, 1, i - 1) \o <<el>> \o SubSeq(sibs, i, Len(sibs))]

\* getRecord(host): the elements of [rec.main, ...rec.slaves].filter(Boolean)
groupEls(id) ==
  IF id \in Groups
  THEN (IF MASTERS[id] # None THEN <<MASTERS[id]>> ELSE <<>>) \o SLAVES[id]
  ELSE <<>>

\* removeEsc()
removeEsc(s) ==
  IF ~s.escHandler THEN s
  ELSE [s EXCEPT !.escListeners = SubSeq(@, 1, Len(@) - 1), !.escHandler = FALSE]

\* the open loop (651-661) over the elements els
RECURSIVE relocateAll(_, _, _)
relocateAll(s, els, region) ==
  IF els = <<>> THEN s
  ELSE LET el == Head(els)
           s1 == IF s.origParent[el] = None
                 THEN [s EXCEPT !.origParent[el] = parentOf(s.children, el),
                                !.origNext[el] = nextSibling(s.children, el)]
                 ELSE s
           s2 == [s1 EXCEPT !.children = appendChild(s1.children, region, el),
                            !.fsClass = @ \cup {el}]
       IN relocateAll(s2, Tail(els), region)

\* the restore loop (683-692) over the elements els
RECURSIVE restoreAll(_, _)
restoreAll(s, els) ==
  IF els = <<>> THEN s
  ELSE LET el == Head(els)
           s1 == [s EXCEPT !.fsClass = @ \ {el}]
           s2 == IF s1.origParent[el] # None
                 THEN LET ch == insertBeforeOrAppend(s1.children, s1.origParent[el], el,
                                                     s1.origNext[el])
                      IN [s1 EXCEPT !.children = ch,
                                    !.log = Append(@, [el |-> el,
                                                       parent |-> s1.origParent[el],
                                                       next |-> s1.origNext[el],
                                                       before |-> s1.children[s1.origParent[el]],
                                                       after |-> ch[s1.origParent[el]]])]
                 ELSE s1
       IN restoreAll(s2, Tail(els))

\* a close that keeps the anchors
clearAnchors_missing(s, els) == s

\* the anchor-clearing loop (694-699)
clearAnchors(s, els) ==
  [s EXCEPT !.origParent = [e \in FsEls |-> IF InSeq(e, els) THEN None ELSE @[e]],
            !.origNext = [e \in FsEls |-> IF InSeq(e, els) THEN None ELSE @[e]]]

\* overlay.remove(): what is still inside leaves the document with it
removeOverlay(s, id) ==
  IF id \notin s.overlays THEN s
  ELSE [s EXCEPT !.overlays = @ \ {id},
                 !.children = [@ EXCEPT !["lost"] = @ \o s.children[regionOf(id)],
                                        ![regionOf(id)] = <<>>]]

\* toggleFullscreen(sw, action); host = sw.el
toggleFullscreen(s, sw, action) ==
  LET host == sw
      id == IF s.swiperId[host] # "" THEN s.swiperId[host] ELSE randomId(host)
      s0 == [s EXCEPT !.swiperId[host] = id, !.log = <<>>]
      els == groupEls(id)
      isOpen == host \in s.fsClass
      wantOpen == action = "open" \/ (action = "toggle" /\ ~isOpen)
      wantClose == action = "close" \/ (action = "toggle" /\ isOpen)
  IN IF wantOpen
     THEN IF isOpen \/ id \in s.bodyCls
          THEN [s0 EXCEPT !.lastFs = [op |-> "open-noop", sw |-> sw]]
          ELSE LET s1 == [s0 EXCEPT !.overlays = @ \cup {id},
                                    !.mo = @ \/ id \notin s.overlays,
                                    !.preOpen = IF \A e \in FsEls : s.origParent[e] = None
                                                THEN [p \in PageParents |-> s.children[p]]
                                                ELSE @]
                   s2 == relocateAll(s1, els, regionOf(id))
               IN [s2 EXCEPT !.fsClass = @ \cup {host},
                             !.bodyCls = @ \cup {"any", id},
                             !.escListeners = Append(@, sw),
                             !.escHandler = TRUE,
                             !.lastFs = [op |-> "open", sw |-> sw]]
     ELSE IF wantClose
     THEN LET s1 == [removeEsc(s0) EXCEPT
                       !.mo = @ \/ \E i \in 1..Len(els) : s.origParent[els[i]] \in PageParents]
              s2 == restoreAll(s1, els)
              s3 == clearAnchors(s2, els)
              s4 == removeOverlay(s3, id)
          IN [s4 EXCEPT !.fsClass = @ \ {host},
                        !.bodyCls = @ \ {"any", id},
                        !.lastFs = [op |-> "close", sw |-> sw]]
     ELSE s0

SetFs(s) ==
  /\ children' = s.children
  /\ origParent' = s.origParent
  /\ origNext' = s.origNext
  /\ fsClass' = s.fsClass
  /\ bodyCls' = s.bodyCls
  /\ overlays' = s.overlays
  /\ swiperId' = s.swiperId
  /\ escListeners' = s.escListeners
  /\ escHandler' = s.escHandler
  /\ preOpen' = s.preOpen
  /\ lastFs' = s.lastFs
  /\ lastRestore' = s.log
  /\ moPending' = s.mo

MaxEsc == 2

\* the initial sibling arrangements of m1, f1 and X under P and Q
Arrangements ==
  { [P |-> <<"m1", "f1", "X">>, Q |-> <<>>], [P |-> <<"f1", "m1", "X">>, Q |-> <<>>],
    [P |-> <<"m1", "X", "f1">>, Q |-> <<>>], [P |-> <<"f1", "X", "m1">>, Q |-> <<>>],
    [P |-> <<"X", "m1", "f1">>, Q |-> <<>>], [P |-> <<"X", "f1", "m1">>, Q |-> <<>>],
    [P |-> <<"m1", "X">>, Q |-> <<"f1">>], [P |-> <<"X", "m1">>, Q |-> <<"f1">>],
    [P |-> <<"f1", "X">>, Q |-> <<"m1">>], [P |-> <<"X", "f1">>, Q |-> <<"m1">>] }

FsInitWith(arr) ==
  /\ children = [p \in DomParents |-> IF p \in PageParents THEN arr[p] ELSE <<>>]
  /\ origParent = [e \in FsEls |-> None]
  /\ origNext = [e \in FsEls |-> None]
  /\ fsClass = {}
  /\ bodyCls = {}
  /\ overlays = {}
  /\ swiperId = [e \in FsHosts |-> HostId(e)]
  /\ escListeners = <<>>
  /\ escHandler = FALSE
  /\ preOpen = arr
  /\ lastFs = [op |-> "none", sw |-> None]
  /\ lastRestore = <<>>

InitFsVars == \E arr \in Arrangements : FsInitWith(arr)

\* the presenter was never used
IdleFs == FsInitWith([P |-> <<"m1", "f1", "X">>, Q |-> <<>>])

\* ThemeSwiper.toggleFullscreen(sw, action), or a [data-swiper-fullscreen] button
ToggleFullscreen(sw, action) ==
  /\ sw \in INST
  /\ Len(toggleFullscreen(Fs, sw, action).escListeners) <= MaxEsc
  /\ SetFs(toggleFullscreen(Fs, sw, action))
  /\ UNCHANGED regTables
  /\ UNCHANGED notFsNorReg

\* the Escape key: the keydown listeners run in the order they were added,
\* each one toggleFullscreen(sw, 'close') and then removeEsc(); a listener
\* that an earlier one removed during the dispatch is not run. removeEsc()
\* takes the newest listener away, so the listeners left are a prefix of ls
\* and the i-th one is still registered exactly when i <= Len(s.escListeners).
RECURSIVE escFrom(_, _, _)
escFrom(s, ls, i) ==
  IF i > Len(ls) THEN s
  ELSE IF i > Len(s.escListeners) THEN escFrom(s, ls, i + 1)
  ELSE escFrom(removeEsc(toggleFullscreen(s, ls[i], "close")), ls, i + 1)

escAll(s, ls) == escFrom(s, ls, 1)

EscapeKey ==
  /\ escListeners # <<>>
  /\ SetFs([escAll(Fs, escListeners) EXCEPT !.lastFs.op = "escape"])
  /\ UNCHANGED regTables
  /\ UNCHANGED notFsNorReg

\* the hosts init(document) reaches: in the document and in no overlay
OutsideOverlay ==
  SelectSeq(PresentInOrder,
            LAMBDA h : h \notin FsEls \/ parentOf(children, h) \in PageParents)

\* the MutationObserver callback for nodes added outside an overlay:
\* init(document), which skips what is inside an overlay
FsMutationPass ==
  /\ moPending
  /\ moPending' = FALSE
  /\ SetReg(initAllHosts(Reg, OutsideOverlay))
  /\ lastCall' = <<"observer", IF Len(OutsideOverlay) < Len(PresentInOrder)
                               THEN "skipped" ELSE None>>
  /\ UNCHANGED <<present, docOrder, lastEvent>>
  /\ UNCHANGED fsVars
  /\ UNCHANGED notFsNorReg

NextFs ==
  \/ \E sw \in FsHosts, action \in {"open", "close", "toggle"} : ToggleFullscreen(sw, action)
  \/ EscapeKey
  \/ FsMutationPass

\* the registry holds the wired group g1
WiredRegVars ==
  /\ present = {"m1", "f1", "solo"}
  /\ docOrder = <<"m1", "f1", "f2", "solo", "bad">>
  /\ moPending = FALSE
  /\ INST = WiredReg.INST
  /\ MASTERS = WiredReg.MASTERS
  /\ SLAVES = WiredReg.SLAVES
  /\ PAIRED = WiredReg.PAIRED
  /\ created = WiredReg.created
  /\ driveSubs = WiredReg.driveSubs
  /\ clickSubs = WiredReg.clickSubs
  /\ wireCount = WiredReg.wireCount
  /\ lastCall = <<"init", None>>
  /\ lastEvent = [host |-> None, drives |-> 0, wired |-> FALSE]

\* ------------------------------------------------------------------------
\* throttle(fn, wait) (theme-global.js 464). Time is counted in ticks; the
\* window is WaitTicks long.
\* ------------------------------------------------------------------------
WaitTicks == 3

MaxTime == 8

MaxTimers == 3

\* calls counted per window
MaxCalls == 3

ThrArgs == {"a", "b"}

TimerIds == 1..MaxTimers

PendingIds == {tm.id : tm \in thrTimers}

\* setTimeout returns a handle that no pending timer and no kept handle uses
FreshId == CHOOSE i \in TimerIds : i \notin PendingIds /\ i # thrTo

\* the delay of the trailing timer: wait - (n - t)
trailingDelay(n, t) == WaitTicks - (n - t)

\* clearTimeout(to) before the trailing timer is set
clearTimeout_missing(timers, to) == timers

clearTimeout(timers, to) == {tm \in timers : tm.id # to}

\* the arguments the trailing invocation passes: last
trailingArgs(tm, last) == last

ThrInit ==
  /\ now \in 0..WaitTicks
  /\ thrT = 0
  /\ thrTo = 0
  /\ thrLast = None
  /\ thrTimers = {}
  /\ thrDirty = FALSE
  /\ thrWin = [start |-> 0, calls |-> 0, invs |-> 0, lead |-> FALSE, race |-> FALSE]
  /\ lastInv = [kind |-> "none", args |-> None, at |-> 0, win |-> 0, recent |-> None,
                calls |-> 0, invs |-> 0, lead |-> FALSE, race |-> FALSE]

\* the throttled function is never called
IdleThr ==
  /\ now = 0
  /\ thrT = 0
  /\ thrTo = 0
  /\ thrLast = None
  /\ thrTimers = {}
  /\ thrDirty = FALSE
  /\ thrWin = [start |-> 0, calls |-> 0, invs |-> 0, lead |-> FALSE, race |-> FALSE]
  /\ lastInv = [kind |-> "none", args |-> None, at |-> 0, win |-> 0, recent |-> None,
                calls |-> 0, invs |-> 0, lead |-> FALSE, race |-> FALSE]

\* a call of the throttled function with arguments a
ThrCall(a) ==
  /\ \E i \in TimerIds : i \notin PendingIds /\ i # thrTo
  /\ (now - thrT < WaitTicks /\ thrWin.start = thrT) => thrWin.calls < MaxCalls
  /\ thrLast' = a
  /\ IF now - thrT >= WaitTicks
     THEN \* leading edge: t = n; fn(...a)
          /\ thrT' = now
          /\ thrDirty' = FALSE
          /\ thrWin' = [start |-> now, calls |-> 1, invs |-> 1, lead |-> TRUE,
                        race |-> thrTimers # {}]
          /\ lastInv' = [kind |-> "lead", args |-> a, at |-> now, win |-> thrT,
                         recent |-> a, calls |-> 1, invs |-> 1, lead |-> TRUE,
                         race |-> thrTimers # {}]
          /\ UNCHANGED <<thrTo, thrTimers>>
     ELSE \* inside the window: replace the trailing timer
          /\ thrTo' = FreshId
          /\ thrTimers' = clearTimeout(thrTimers, thrTo) \cup
                            {[id |-> FreshId, due |-> now + trailingDelay(now, thrT),
                              win |-> thrT,
                              calls |-> IF thrWin.start = thrT /\ thrWin.calls > 0
                                        THEN thrWin.calls + 1 ELSE 1,
                              invs |-> IF thrWin.start = thrT /\ thrWin.calls > 0
                                       THEN thrWin.invs ELSE 0,
                              lead |-> thrWin.start = thrT /\ thrWin.calls > 0
                                         /\ thrWin.lead]}
          /\ thrDirty' = TRUE
          /\ thrWin' = IF thrWin.start = thrT /\ thrWin.calls > 0
                       THEN [thrWin EXCEPT !.calls = @ + 1]
                       ELSE [start |-> thrT, calls |-> 1, invs |-> 0, lead |-> FALSE,
                             race |-> FALSE]
          /\ UNCHANGED <<thrT, lastInv>>
  /\ UNCHANGED now
  /\ UNCHANGED notThr

\* a due trailing timer runs: t = performance.now(); fn(...last)
ThrTimerFire ==
  /\ \E tm \in thrTimers :
       /\ tm.due <= now
       /\ thrTimers' = thrTimers \ {tm}
       /\ thrT' = now
       /\ thrDirty' = FALSE
       /\ IF tm.win = thrWin.start
          THEN \* the trailing invocation of the running window
               /\ thrWin' = [thrWin EXCEPT !.invs = @ + 1]
               /\ lastInv' = [kind |-> "trail", args |-> trailingArgs(tm, thrLast),
                              at |-> now, win |-> tm.win, recent |-> thrLast,
                              calls |-> thrWin.calls, invs |-> thrWin.invs + 1,
                              lead |-> thrWin.lead, race |-> thrWin.race]
          ELSE \* of the window before: a call at its boundary ran first
               /\ thrWin' = thrWin
               /\ lastInv' = [kind |-> "trail", args |-> trailingArgs(tm, thrLast),
                              at |-> now, win |-> tm.win, recent |-> thrLast,
                              calls |-> tm.calls, invs |-> tm.invs + 1,
                              lead |-> tm.lead, race |-> TRUE]
  /\ UNCHANGED <<now, thrTo, thrLast>>
  /\ UNCHANGED notThr

\* time passes; a timer runs no later than the tick it is due in, but a call
\* made in that tick may be handled before it
ThrTick ==
  /\ now < MaxTime
  /\ \A tm \in thrTimers : tm.due > now
  /\ now' = now + 1
  /\ UNCHANGED <<thrT, thrTo, thrLast, thrTimers, thrDirty, thrWin, lastInv>>
  /\ UNCHANGED notThr

NextThr ==
  \/ \E a \in ThrArgs : ThrCall(a)
  \/ ThrTimerFire
  \/ ThrTick

\* ------------------------------------------------------------------------
\* stableUpdate(sw, delay) (theme-global.js 488-495) on one instance. The
\* callers pass delays between 60 and 180 ms; the model has a short and a
\* long one, in ticks.
\* ------------------------------------------------------------------------
MaxUpdTime == 6

\* calls counted per burst
MaxUpdCalls == 3

UpdDelays == {1, 2}

UpdPendingIds == {tm.id : tm \in updTimers}

\* stableUpdate without clearTimeout(sw._updTimer)
stableUpdate_noCancel(timers, handle, id, n, delay, touch) ==
  timers \cup {[id |-> id, due |-> n + delay, touch |-> touch]}

\* clearTimeout(sw._updTimer); sw._updTimer = setTimeout(..., delay); the
\* callback keeps the touch flag of the call that set it
stableUpdate(timers, handle, id, n, delay, touch) ==
  clearTimeout(timers, handle) \cup {[id |-> id, due |-> n + delay, touch |-> touch]}

NoUpd == [kind |-> "none", at |-> 0, calls |-> 0, callAt |-> 0, delay |-> 0,
          recomputed |-> FALSE, destroyed |-> FALSE, touched |-> FALSE, asked |-> FALSE]

NoBurst == [calls |-> 0, at |-> 0, delay |-> 0, touch |-> FALSE]

InitUpd ==
  /\ updNow = 0
  /\ updTimer = 0
  /\ updTimers = {}
  /\ updDestroyed = FALSE
  /\ updBurst = NoBurst
  /\ lastUpd = NoUpd

\* stableUpdate is never called
IdleUpd == InitUpd

\* a caller (slide observer, image load, engine event, fullscreen, wiring)
\* calls stableUpdate(sw, d, {touch: t})
UpdCall(d, t) ==
  /\ updBurst.calls < MaxUpdCalls
  /\ \E i \in TimerIds :
       /\ i \notin UpdPendingIds
       /\ i # updTimer
       /\ \A k \in TimerIds : (k \notin UpdPendingIds /\ k # updTimer) => i <= k
       /\ updTimers' = stableUpdate(updTimers, updTimer, i, updNow, d, t)
       /\ updTimer' = i
  /\ updBurst' = [calls |-> updBurst.calls + 1, at |-> updNow, delay |-> d,
                  touch |-> updBurst.touch \/ t]
  /\ lastUpd' = [NoUpd EXCEPT !.kind = "call", !.at = updNow]
  /\ UNCHANGED <<updNow, updDestroyed>>
  /\ UNCHANGED notUpd

\* a due timer runs: nothing for a destroyed instance, else touchLazy when
\* its own call asked for it, and the recompute
UpdTimerFire ==
  /\ \E tm \in updTimers :
       /\ tm.due <= updNow
       /\ updTimers' = updTimers \ {tm}
       /\ lastUpd' = [kind |-> "fire", at |-> updNow, calls |-> updBurst.calls,
                      callAt |-> updBurst.at, delay |-> updBurst.delay,
                      recomputed |-> ~updDestroyed, destroyed |-> updDestroyed,
                      touched |-> tm.touch /\ ~updDestroyed, asked |-> updBurst.touch]
  /\ updBurst' = NoBurst
  /\ UNCHANGED <<updNow, updTimer, updDestroyed>>
  /\ UNCHANGED notUpd

\* code outside the registry destroys the engine instance
UpdDestroy ==
  /\ ~updDestroyed
  /\ updDestroyed' = TRUE
  /\ lastUpd' = NoUpd
  /\ UNCHANGED <<updNow, updTimer, updTimers, updBurst>>
  /\ UNCHANGED notUpd

\* time passes; a timer runs no later than the tick it is due in, but a call
\* made in that tick may be handled before it
UpdTick ==
  /\ updNow < MaxUpdTime
  /\ \A tm \in updTimers : tm.due > updNow
  /\ updNow' = updNow + 1
  /\ lastUpd' = NoUpd
  /\ UNCHANGED <<updTimer, updTimers, updDestroyed, updBurst>>
  /\ UNCHANGED notUpd

NextUpd ==
  \/ \E d \in UpdDelays, t \in BOOLEAN : UpdCall(d, t)
  \/ UpdTimerFire
  \/ UpdDestroy
  \/ UpdTick

\* ------------------------------------------------------------------------
\* The drive pass of one wired pair: a master and one follower
\* (theme-global.js 513-597, 726-756). Neither is in wrap-around mode.
\* Slide positions and logical indices count from 0, -1 is "not found".
\* ------------------------------------------------------------------------
DSlides == NSlides + 1

SlidePos == 0..(DSlides - 1)

\* width of one slide, in the unit of the scroll offsets
SlideW == 2

\* both viewports show two slides
ViewSize == 2 * SlideW

MaxOffset == DSlides * SlideW - ViewSize

Offsets == 0..MaxOffset

\* the speed drive passes to ensureSlaveShows, and what is added for the timer
DriveSpeed == 200

SyncMargin == 20

\* one step of time
TickMs == SyncMargin

MaxSyncTimers == 2

\* data-swiper-slide-index as written in the markup: <<>> is no attribute
PlainSlides == [i \in SlidePos |-> <<>>]

ReversedSlides == [i \in SlidePos |-> <<DSlides - 1 - i>>]

RepeatedSlides == [i \in SlidePos |-> IF i = 1 THEN <<0>> ELSE <<>>]

PartialSlides == [i \in SlidePos |-> IF i = 0 THEN <<DSlides + 1>> ELSE <<>>]

FollowerMarkups == {PlainSlides, ReversedSlides, RepeatedSlides, PartialSlides}

\* ensureStructure's slides.forEach: a slide without the attribute gets its position
assignSlideIndex(markup) ==
  [i \in SlidePos |-> IF markup[i] = <<>> THEN <<i>> ELSE markup[i]]

\* logicalFromSlideEl(slideEl, fallback): the attribute is always there after
\* ensureStructure
logicalFromSlideEl(attrs, i) == attrs[i][1]

MasterAttrs == assignSlideIndex(PlainSlides)

FollowerAttrs == assignSlideIndex(fMarkup)

slidesGrid(i) == i * SlideW

\* findIndexByLogical with a fallback to the first slide when none matches
findIndexByLogical_nearest(attrs, logicalIdx) ==
  IF \E i \in SlidePos : attrs[i][1] = logicalIdx
  THEN CHOOSE i \in SlidePos :
         /\ attrs[i][1] = logicalIdx
         /\ \A k \in SlidePos : attrs[k][1] = logicalIdx => i <= k
  ELSE 0

\* findIndexByLogical(sw, logicalIdx) answering with the raw position
findIndexByLogical_raw(attrs, logicalIdx) ==
  IF logicalIdx \in SlidePos THEN logicalIdx ELSE -1

\* findIndexByLogical(sw, logicalIdx): the first position, or -1
findIndexByLogical(attrs, logicalIdx) ==
  LET hits == {i \in SlidePos : logicalFromSlideEl(attrs, i) = logicalIdx}
  IN IF hits = {} THEN -1 ELSE CHOOSE i \in hits : \A k \in hits : i <= k

\* the positions whose slide overlaps the viewport at this offset
overlapping(offset) ==
  {i \in SlidePos : slidesGrid(i) + SlideW > offset /\ slidesGrid(i) < offset + ViewSize}

\* logicalIndexSet(sw)
logicalIndexSet(attrs, offset) ==
  {logicalFromSlideEl(attrs, i) : i \in overlapping(offset)}

Dist(a, b) == IF a >= b THEN a - b ELSE b - a

\* primaryLogicalIndex(sw): the first slide closest to the offset
primaryLogicalIndex(attrs, offset) ==
  LET best == CHOOSE i \in SlidePos :
                \A k \in SlidePos :
                  \/ Dist(slidesGrid(i), offset) < Dist(slidesGrid(k), offset)
                  \/ (Dist(slidesGrid(i), offset) = Dist(slidesGrid(k), offset) /\ i <= k)
  IN logicalFromSlideEl(attrs, best)

\* Array.from(set).sort((a,b) => a-b) left out
sortAscending_none(seq) == seq

\* seq with x put before the first element greater than x
RECURSIVE insertSorted(_, _)
insertSorted(seq, x) ==
  IF seq = <<>> THEN <<x>>
  ELSE IF x <= Head(seq) THEN <<x>> \o seq
  ELSE <<Head(seq)>> \o insertSorted(Tail(seq), x)

\* Array.prototype.sort((a,b) => a-b)
RECURSIVE sortAscending(_)
sortAscending(seq) ==
  IF seq = <<>> THEN <<>> ELSE insertSorted(sortAscending(Tail(seq)), Head(seq))

\* the loop of logicalIndexSet from position i on: set.add(li >= 0 ? li : i)
\* for every overlapping slide; acc is the Set in insertion order
RECURSIVE addVisible(_, _, _, _)
addVisible(attrs, offset, i, acc) ==
  IF i >= DSlides THEN acc
  ELSE LET s0 == slidesGrid(i)
           s1 == s0 + SlideW
           li == logicalFromSlideEl(attrs, i)
           v == IF li >= 0 THEN li ELSE i
       IN IF s1 > offset /\ s0 < offset + ViewSize /\ ~InSeq(v, acc)
          THEN addVisible(attrs, offset, i + 1, Append(acc, v))
          ELSE addVisible(attrs, offset, i + 1, acc)

\* logicalIndexSet(sw) as the array it returns
visibleSet(sw) ==
  IF sw.destroyed THEN <<>>
  ELSE sortAscending(addVisible(sw.attrs, sw.offset, 0, <<>>))

\* primaryLogicalIndex(sw) with its guards
primaryIndex(sw) ==
  IF sw.destroyed THEN 0
  ELSE IF sw.loop THEN sw.realIndex
  ELSE primaryLogicalIndex(sw.attrs, sw.offset)

\* findIndexByLogical(sw, logicalIdx) on the instance
resolveSlideByLogical(sw, logicalIdx) == findIndexByLogical(sw.attrs, logicalIdx)

\* the logical indices asked for: those in use, one above, and -1
LogicalQueries == -1..(DSlides + 1)

NoMapCall == [fn |-> "none", arg |-> -1, value |-> <<>>]

InitMap ==
  /\ mapSw \in [attrs : {assignSlideIndex(m) : m \in FollowerMarkups},
                 offset : Offsets, loop : BOOLEAN, realIndex : {0, DSlides - 1},
                 destroyed : BOOLEAN]
  /\ mapOut = NoMapCall

\* no helper is called
IdleMap ==
  /\ mapSw = [attrs |-> assignSlideIndex(PlainSlides), offset |-> 0, loop |-> FALSE,
              realIndex |-> 0, destroyed |-> FALSE]
  /\ mapOut = NoMapCall

\* ThemeSwiper.visibleSet(sw) / logicalIndexSet(sw)
CallVisibleSet ==
  /\ mapOut' = [fn |-> "visibleSet", arg |-> -1, value |-> visibleSet(mapSw)]
  /\ UNCHANGED mapSw
  /\ UNCHANGED notMap

\* ThemeSwiper.primaryIndex(sw) / primaryLogicalIndex(sw)
CallPrimaryIndex ==
  /\ mapOut' = [fn |-> "primaryIndex", arg |-> -1, value |-> <<primaryIndex(mapSw)>>]
  /\ UNCHANGED mapSw
  /\ UNCHANGED notMap

\* findIndexByLogical(sw, L)
CallResolve(L) ==
  /\ mapOut' = [fn |-> "resolve", arg |-> L, value |-> <<resolveSlideByLogical(mapSw, L)>>]
  /\ UNCHANGED mapSw
  /\ UNCHANGED notMap

\* the instance scrolls to another offset
MapScroll(o) ==
  /\ o # mapSw.offset
  /\ mapSw' = [mapSw EXCEPT !.offset = o]
  /\ mapOut' = NoMapCall
  /\ UNCHANGED notMap

NextMap ==
  \/ CallVisibleSet
  \/ CallPrimaryIndex
  \/ \E L \in LogicalQueries : CallResolve(L)
  \/ \E o \in Offsets : MapScroll(o)

\* slave.visibleSlidesIndexes || []: published by the engine only when the
\* follower's options turn slide watching on
visibleSlidesIndexes(offset) == IF fWatch THEN overlapping(offset) ELSE {}

\* where slideTo(idx) leaves the offset
slideToOffset(idx) == Min2(slidesGrid(idx), MaxOffset)

MinOf(S) == CHOOSE x \in S : \A y \in S : x <= y

\* drive: markRelation(master, slaves), then ensureSlaveShows(master, sl, 200),
\* with the master at offset mo
drive(mo) ==
  LET visibles == logicalIndexSet(MasterAttrs, mo)
      primary == primaryLogicalIndex(MasterAttrs, mo)
      targetLogical == MinOf(visibles)
      targetIdx == findIndexByLogical(FollowerAttrs, targetLogical)
      scroll == targetIdx >= 0 /\ targetIdx \notin visibleSlidesIndexes(fOffset)
  IN /\ Len(syncTimers) + (IF scroll THEN 1 ELSE 0) <= MaxSyncTimers
     /\ mOffset' = mo
     /\ fVisibleCls' = {i \in SlidePos : logicalFromSlideEl(FollowerAttrs, i) \in visibles}
     /\ fActiveCls' = {i \in SlidePos : logicalFromSlideEl(FollowerAttrs, i) = primary}
     /\ IF scroll
        THEN /\ syncing' = TRUE
             /\ fOffset' = slideToOffset(targetIdx)
             /\ fScrollRem' = DriveSpeed
             /\ syncTimers' = Append(syncTimers, DriveSpeed + SyncMargin)
        ELSE UNCHANGED <<syncing, fOffset, fScrollRem, syncTimers>>
     /\ lastDrive' = [done |-> TRUE, visibles |-> visibles, primary |-> primary,
                      scrolled |-> scroll, target |-> targetIdx,
                      shown |-> \E i \in overlapping(fOffset) :
                                  logicalFromSlideEl(FollowerAttrs, i) \in visibles]

NoDrive ==
  [done |-> FALSE, visibles |-> {}, primary |-> 0, scrolled |-> FALSE, target |-> -1,
   shown |-> FALSE]

NoClick == [done |-> FALSE, idx |-> -1, syncing |-> FALSE, inFlight |-> FALSE, request |-> -1]

\* where a swipe of the follower comes to rest
RestOffsets == {slideToOffset(i) : i \in SlidePos}

InitDrive ==
  /\ fMarkup \in FollowerMarkups
  /\ fWatch \in BOOLEAN
  /\ mOffset = 0
  /\ fOffset \in RestOffsets
  /\ fVisibleCls = {}
  /\ fActiveCls = {}
  /\ syncing = FALSE
  /\ syncTimers = <<>>
  /\ fScrollRem = 0
  /\ lastDrive = NoDrive
  /\ lastClick = NoClick

\* no pair is wired
IdleDrive ==
  /\ fMarkup = PlainSlides
  /\ fWatch = FALSE
  /\ mOffset = 0
  /\ fOffset = 0
  /\ fVisibleCls = {}
  /\ fActiveCls = {}
  /\ syncing = FALSE
  /\ syncTimers = <<>>
  /\ fScrollRem = 0
  /\ lastDrive = NoDrive
  /\ lastClick = NoClick

\* the master is moved to an offset (a swipe, a free-mode drag, its own
\* navigation) and its handlers run the drive pass
MasterMove(o) ==
  /\ o # mOffset
  /\ drive(o)
  /\ lastClick' = NoClick
  /\ UNCHANGED <<fMarkup, fWatch>>
  /\ UNCHANGED notDrive

\* the visitor drags the follower; its throttled markSelf runs markRelation
FollowerDrag(o) ==
  /\ o # fOffset
  /\ fOffset' = o
  /\ fScrollRem' = 0
  /\ fVisibleCls' = {i \in SlidePos : logicalFromSlideEl(FollowerAttrs, i)
                                        \in logicalIndexSet(MasterAttrs, mOffset)}
  /\ fActiveCls' = {i \in SlidePos : logicalFromSlideEl(FollowerAttrs, i)
                                       = primaryLogicalIndex(MasterAttrs, mOffset)}
  /\ lastDrive' = NoDrive
  /\ lastClick' = NoClick
  /\ UNCHANGED <<fMarkup, fWatch, mOffset, syncing, syncTimers>>
  /\ UNCHANGED notDrive

\* a click on the follower's slide at position idx: the handler of wirePair,
\* and the drive pass the master's navigation sets off
FollowerClick(idx) ==
  /\ lastClick' = [done |-> TRUE, idx |-> idx, syncing |-> syncing,
                   inFlight |-> fScrollRem > 0,
                   request |-> IF syncing THEN -1 ELSE idx]
  /\ IF syncing \/ slideToOffset(idx) = mOffset
     THEN /\ lastDrive' = NoDrive
          /\ UNCHANGED <<mOffset, fOffset, fVisibleCls, fActiveCls, syncing, syncTimers,
                         fScrollRem>>
     ELSE drive(slideToOffset(idx))
  /\ UNCHANGED <<fMarkup, fWatch>>
  /\ UNCHANGED notDrive

\* the timer of ensureSlaveShows: SYNCING.delete(slave)
SyncTimerFire ==
  /\ syncTimers # <<>>
  /\ Head(syncTimers) = 0
  /\ syncTimers' = Tail(syncTimers)
  /\ syncing' = FALSE
  /\ lastDrive' = NoDrive
  /\ lastClick' = NoClick
  /\ UNCHANGED <<fMarkup, fWatch, mOffset, fOffset, fVisibleCls, fActiveCls, fScrollRem>>
  /\ UNCHANGED notDrive

\* TickMs pass; a due timer runs first
DriveTick ==
  /\ syncTimers # <<>> \/ fScrollRem > 0
  /\ \A k \in 1..Len(syncTimers) : syncTimers[k] > 0
  /\ syncTimers' = [k \in 1..Len(syncTimers) |-> Max2(syncTimers[k] - TickMs, 0)]
  /\ fScrollRem' = Max2(fScrollRem - TickMs, 0)
  /\ lastDrive' = NoDrive
  /\ lastClick' = NoClick
  /\ UNCHANGED <<fMarkup, fWatch, mOffset, fOffset, fVisibleCls, fActiveCls, syncing>>
  /\ UNCHANGED notDrive

NextDrive ==
  \/ \E o \in Offsets : MasterMove(o)
  \/ \E o \in RestOffsets : FollowerDrag(o)
  \/ \E idx \in SlidePos : FollowerClick(idx)
  \/ SyncTimerFire
  \/ DriveTick

\* the timer of ensureSlaveShows set after the try block only: a scroll call
\* that throws leaves no timer
armSyncTimer_afterTry(timers, speed, throws) ==
  IF throws THEN timers ELSE Append(timers, speed + SyncMargin)

\* finally { setTimeout(() => SYNCING.delete(slave), speed+20) }
armSyncTimer(timers, speed, throws) == Append(timers, speed + SyncMargin)

\* the try/finally of ensureSlaveShows (590-596) on its own: the marker is
\* set, the engine's slideTo either starts the scroll to targetIdx or throws,
\* and the timer is set on the way out
SyncScroll(targetIdx, throws) ==
  /\ Len(syncTimers) < MaxSyncTimers
  /\ syncing' = TRUE
  /\ IF throws
     THEN UNCHANGED <<fOffset, fScrollRem>>
     ELSE /\ fOffset' = slideToOffset(targetIdx)
          /\ fScrollRem' = DriveSpeed
  /\ syncTimers' = armSyncTimer(syncTimers, DriveSpeed, throws)
  /\ lastDrive' = [NoDrive EXCEPT !.scrolled = TRUE,
                                  !.target = IF throws THEN -1 ELSE targetIdx]
  /\ lastClick' = NoClick
  /\ UNCHANGED <<fMarkup, fWatch, mOffset, fVisibleCls, fActiveCls>>
  /\ UNCHANGED notDrive

NextSync ==
  \/ \E i \in SlidePos, throws \in BOOLEAN : SyncScroll(i, throws)
  \/ SyncTimerFire
  \/ DriveTick

\* ------------------------------------------------------------------------
\* The drive timer wirePair leaves pending (theme-global.js 772-777) and a
\* master destroyed before it fires. Neither setTimeout(drive, 90) nor the
\* timers of throttle are cancelled by anything.
\* ------------------------------------------------------------------------
InitLate ==
  /\ mDestroyed = FALSE
  /\ driveTimer = "none"

IdleLate == InitLate

\* logicalIndexSet(main) and primaryLogicalIndex(main) with the destroyed
\* guards of lines 531 and 551
masterVisibles == IF mDestroyed THEN {} ELSE logicalIndexSet(MasterAttrs, mOffset)

masterPrimary == IF mDestroyed THEN 0 ELSE primaryLogicalIndex(MasterAttrs, mOffset)

\* wirePair's closing block: after a frame, setTimeout(drive, 90)
ArmDriveTimer ==
  /\ ~mDestroyed
  /\ driveTimer = "none"
  /\ driveTimer' = "armed"
  /\ UNCHANGED mDestroyed
  /\ UNCHANGED notLate

\* the master moves while it lives
LateMasterMove(o) ==
  /\ ~mDestroyed
  /\ o # mOffset
  /\ drive(o)
  /\ lastClick' = NoClick
  /\ UNCHANGED <<fMarkup, fWatch>>
  /\ UNCHANGED notDrive

\* master.destroy(): the flag is set, no timer is cleared
MasterDestroy ==
  /\ ~mDestroyed
  /\ mDestroyed' = TRUE
  /\ UNCHANGED driveTimer
  /\ UNCHANGED notLate

\* the pending timer runs drive: markRelation(master, slaves) has no guard
\* on master.destroyed (565), ensureSlaveShows returns at 580
DriveTimerFire ==
  /\ driveTimer = "armed"
  /\ driveTimer' = "none"
  /\ IF mDestroyed
     THEN /\ fVisibleCls' = {i \in SlidePos :
                               logicalFromSlideEl(FollowerAttrs, i) \in masterVisibles}
          /\ fActiveCls' = {i \in SlidePos :
                              logicalFromSlideEl(FollowerAttrs, i) = masterPrimary}
          /\ lastDrive' = [NoDrive EXCEPT !.done = TRUE]
          /\ UNCHANGED <<mOffset, fOffset, syncing, syncTimers, fScrollRem>>
     ELSE drive(mOffset)
  /\ lastClick' = NoClick
  /\ UNCHANGED <<fMarkup, fWatch>>
  /\ UNCHANGED notDriveNorLate
  /\ UNCHANGED mDestroyed

NextLate ==
  \/ ArmDriveTimer
  \/ \E o \in Offsets : LateMasterMove(o)
  \/ MasterDestroy
  \/ DriveTimerFire
  \/ SyncTimerFire
  \/ DriveTick

\* ------------------------------------------------------------------------
\* The drawers: open (theme-drawer.js 63-112), closeDrawer (130-169), the
\* transitionend listener and the 350 ms fallback timer it leaves behind.
\* ------------------------------------------------------------------------
Drawers == {"d1", "d2"}

\* closes counted per drawer while their timers or listeners are pending
MaxDrawerTimers == 2

InitDrawer ==
  /\ activeDrawer = None
  /\ drHidden = [d \in Drawers |-> TRUE]
  /\ drOpenCls = {}
  /\ drBodyLock = FALSE
  /\ drTimers = [d \in Drawers |-> 0]
  /\ drListeners = [d \in Drawers |-> 0]

IdleDrawer == InitDrawer

\* closeDrawer(drawer) on a drawer that is not hidden: the values it leaves
closeDrawer(st, d) ==
  [st EXCEPT !.open = @ \ {d},
             !.lock = FALSE,
             !.listeners[d] = @ + 1,
             !.timers[d] = @ + 1,
             !.active = IF @ = d THEN None ELSE @]

\* closeDrawer's early return: if (!drawer || drawer.hidden) return false
closeDrawerGuarded(st, d) == IF st.hidden[d] THEN st ELSE closeDrawer(st, d)

DrawerState ==
  [active |-> activeDrawer, hidden |-> drHidden, open |-> drOpenCls,
   lock |-> drBodyLock, timers |-> drTimers, listeners |-> drListeners]

SetDrawer(st) ==
  /\ activeDrawer' = st.active
  /\ drHidden' = st.hidden
  /\ drOpenCls' = st.open
  /\ drBodyLock' = st.lock
  /\ drTimers' = st.timers
  /\ drListeners' = st.listeners

\* open(id): closes another active drawer, then shows and locks
DrawerOpen(d) ==
  LET st0 == IF activeDrawer # None /\ activeDrawer # d
             THEN closeDrawerGuarded(DrawerState, activeDrawer)
             ELSE DrawerState
  IN /\ \A x \in Drawers : st0.timers[x] <= MaxDrawerTimers
     /\ \A x \in Drawers : st0.listeners[x] <= MaxDrawerTimers
     /\ SetDrawer([st0 EXCEPT !.hidden[d] = FALSE,
                               !.open = @ \cup {d},
                               !.lock = TRUE,
                               !.active = d])
     /\ UNCHANGED notDrawer

\* close(id), a close button, the overlay or Escape
DrawerClose(d) ==
  /\ ~drHidden[d]
  /\ drTimers[d] < MaxDrawerTimers
  /\ drListeners[d] < MaxDrawerTimers
  /\ SetDrawer(closeDrawer(DrawerState, d))
  /\ UNCHANGED notDrawer

\* a 350 ms fallback timer of closeDrawer runs: if (!drawer.hidden) drawer.hidden = true
DrawerTimerFire(d) ==
  /\ drTimers[d] > 0
  /\ drTimers' = [drTimers EXCEPT ![d] = @ - 1]
  /\ drHidden' = [drHidden EXCEPT ![d] = TRUE]
  /\ UNCHANGED <<activeDrawer, drOpenCls, drBodyLock, drListeners>>
  /\ UNCHANGED notDrawer

\* a transition of the drawer ends: every handleTransitionEnd left on it
\* hides it and removes itself
DrawerTransitionEnd(d) ==
  /\ drListeners[d] > 0
  /\ drListeners' = [drListeners EXCEPT ![d] = 0]
  /\ drHidden' = [drHidden EXCEPT ![d] = TRUE]
  /\ UNCHANGED <<activeDrawer, drOpenCls, drBodyLock, drTimers>>
  /\ UNCHANGED notDrawer

NextDrawer ==
  \/ \E d \in Drawers : DrawerOpen(d)
  \/ \E d \in Drawers : DrawerClose(d)
  \/ \E d \in Drawers : DrawerTimerFire(d)
  \/ \E d \in Drawers : DrawerTransitionEnd(d)

\* ------------------------------------------------------------------------
\* The cart section updater: CartUpdater.update (part_001 209-239,
\* theme-cart.js 183-213), updateSections (part_001 161-202) and the handlers
\* that call update after a cart change (part_001 461-484, 719-744).
\* ------------------------------------------------------------------------
MaxCartChanges == 4

NoFetch == [phase |-> "none", snap |-> 0]

InitCart ==
  /\ cartSrv = 0
  /\ cartRendered = 0
  /\ isUpdating = FALSE
  /\ cartFetch = NoFetch
  /\ cartAwait = 0
  /\ cartFailed = FALSE

IdleCart == InitCart

\* a handler sends CartAPI.change and the server applies it
CartChange ==
  /\ cartSrv < MaxCartChanges
  /\ cartSrv' = cartSrv + 1
  /\ cartAwait' = cartAwait + 1
  /\ UNCHANGED <<cartRendered, isUpdating, cartFetch, cartFailed>>
  /\ UNCHANGED notCart

\* update(options): if (this.isUpdating) return; this.isUpdating = true; the
\* section fetch is sent
update(flag, fetch) ==
  IF flag THEN [flag |-> flag, fetch |-> fetch, dropped |-> TRUE]
  ELSE [flag |-> TRUE, fetch |-> [phase |-> "sent", snap |-> 0], dropped |-> FALSE]

\* the response of a change arrives and its handler calls update
CartChangeDone ==
  /\ cartAwait > 0
  /\ cartAwait' = cartAwait - 1
  /\ isUpdating' = update(isUpdating, cartFetch).flag
  /\ cartFetch' = update(isUpdating, cartFetch).fetch
  /\ UNCHANGED <<cartSrv, cartRendered, cartFailed>>
  /\ UNCHANGED notCart

\* the server renders the sections asked for from its cart of that moment
CartFetchServed ==
  /\ cartFetch.phase = "sent"
  /\ cartFetch' = [phase |-> "served", snap |-> cartSrv]
  /\ UNCHANGED <<cartSrv, cartRendered, isUpdating, cartAwait, cartFailed>>
  /\ UNCHANGED notCart

\* the fetch ends: updateSections replaces the sections, or catches the
\* failure; update's finally block resets the flag
CartFetchDone(ok) ==
  /\ cartFetch.phase = "served" \/ (cartFetch.phase = "sent" /\ ~ok)
  /\ cartRendered' = IF ok THEN cartFetch.snap ELSE cartRendered
  /\ cartFailed' = ~ok
  /\ cartFetch' = NoFetch
  /\ isUpdating' = FALSE
  /\ UNCHANGED <<cartSrv, cartAwait>>
  /\ UNCHANGED notCart

NextCart ==
  \/ CartChange
  \/ CartChangeDone
  \/ CartFetchServed
  \/ \E ok \in BOOLEAN : CartFetchDone(ok)

\* ------------------------------------------------------------------------
\* Waiting for the engine: whenSwiperReady (theme-global.js 465) and
\* whenReady (part_000 195-199)
\* ------------------------------------------------------------------------
SwiperTries == 200

GalleryTries == 100

\* one call whenSwiperReady(cb, tries): the poll after it
whenSwiperReady_noGiveUp(p, loaded, limit) ==
  IF loaded THEN [p EXCEPT !.cb = @ + 1, !.due = FALSE]
  ELSE [p EXCEPT !.tries = Min2(@ + 1, limit + 1), !.due = TRUE]

whenSwiperReady(p, loaded, limit) ==
  IF loaded THEN [p EXCEPT !.cb = @ + 1, !.due = FALSE]
  ELSE IF p.tries > limit THEN [p EXCEPT !.warned = @ + 1, !.due = FALSE]
  ELSE [p EXCEPT !.tries = @ + 1, !.due = TRUE]

NewPoll == [tries |-> 0, due |-> TRUE, cb |-> 0, warned |-> 0, missed |-> FALSE]

InitPoll ==
  /\ swiperLoaded \in BOOLEAN
  /\ pollLimit \in {SwiperTries, GalleryTries}
  /\ poll = NewPoll

\* nothing waits for the engine
IdlePoll ==
  /\ swiperLoaded = TRUE
  /\ pollLimit = SwiperTries
  /\ poll = [NewPoll EXCEPT !.due = FALSE]

\* the engine's script finishes loading
SwiperLoads ==
  /\ ~swiperLoaded
  /\ swiperLoaded' = TRUE
  /\ UNCHANGED <<pollLimit, poll>>
  /\ UNCHANGED notPoll

\* the first call, or the timer of the call before, runs whenSwiperReady
PollAttempt ==
  /\ poll.due
  /\ LET q == whenSwiperReady(poll, swiperLoaded, pollLimit)
     IN poll' = [q EXCEPT !.missed = @ \/ (swiperLoaded /\ q.cb = poll.cb)]
  /\ UNCHANGED <<swiperLoaded, pollLimit>>
  /\ UNCHANGED notPoll

NextPoll ==
  \/ SwiperLoads
  \/ PollAttempt

\* ------------------------------------------------------------------------
\* The configuration attribute: j (theme-global.js 460), initOne's opts (794),
\* parseJSON and createSwiper's merge (part_000 7-54).
\* A JavaScript value is a record: null, a number, or an object of which the
\* slidesPerView property is kept as its text (<<>> when it has none).
\* ------------------------------------------------------------------------
JsNull == [t |-> "null", slidesPerView |-> <<>>]

JsZero == [t |-> "number", slidesPerView |-> <<>>]

JsObject(spv) == [t |-> "object", slidesPerView |-> spv]

\* data-swiper-options: <<>> is no attribute
AttrTexts == {<<>>, <<"">>, <<"{oops">>, <<"null">>, <<"0">>, <<"{}">>,
              <<"{\"slidesPerView\":3}">>}

\* JSON.parse(text): the value, or a SyntaxError
JSONparse(text) ==
  CASE text = "null" -> [ok |-> TRUE, value |-> JsNull]
    [] text = "0" -> [ok |-> TRUE, value |-> JsZero]
    [] text = "{}" -> [ok |-> TRUE, value |-> JsObject(<<>>)]
    [] text = "{\"slidesPerView\":3}" -> [ok |-> TRUE, value |-> JsObject(<<"3">>)]
    [] OTHER -> [ok |-> FALSE, value |-> JsNull]

Falsy(v) == v.t \in {"null", "number"}

\* j(s, f={}) and parseJSON(str, fallback={}): try { s ? JSON.parse(s) : f } catch { f }
j(attr) ==
  IF attr = <<>> \/ attr[1] = "" THEN JsObject(<<>>)
  ELSE IF JSONparse(attr[1]).ok THEN JSONparse(attr[1]).value
  ELSE JsObject(<<>>)

parseJSON(attr) == j(attr)

\* initOne: const opts = j(...) || {}; the instance is constructed with opts
initOneOpts(in) ==
  LET opts == IF Falsy(j(in.attr)) THEN JsObject(<<>>) ELSE j(in.attr)
  IN [done |-> TRUE, raised |-> FALSE, slidesPerView |-> opts.slidesPerView]

\* createSwiper: baseOpts = parseJSON(...); opts = {...baseOpts, ...extraOpts};
\* for the main host slidesPerView is 1 when vertical and otherwise
\* baseOpts.slidesPerView || 'auto', which reads a property of baseOpts
createSwiperOpts(in) ==
  LET baseOpts == parseJSON(in.attr)
      isVertical == getDirection(in.width) = "vertical"
  IN IF in.isThumbs
     THEN [done |-> TRUE, raised |-> FALSE, slidesPerView |-> baseOpts.slidesPerView]
     ELSE IF isVertical
     THEN [done |-> TRUE, raised |-> FALSE, slidesPerView |-> <<"1">>]
     ELSE IF baseOpts.t = "null"
     THEN [done |-> TRUE, raised |-> TRUE, slidesPerView |-> <<>>]
     ELSE [done |-> TRUE, raised |-> FALSE,
           slidesPerView |-> IF baseOpts.slidesPerView = <<>> THEN <<"auto">>
                             ELSE baseOpts.slidesPerView]

construct(in) == IF in.variant = "registry" THEN initOneOpts(in) ELSE createSwiperOpts(in)

NotConstructed == [done |-> FALSE, raised |-> FALSE, slidesPerView |-> <<>>]

InitCfg ==
  /\ cfgIn \in [variant : {"registry", "gallery"}, attr : AttrTexts, width : Widths,
                isThumbs : BOOLEAN]
  /\ cfgOut = NotConstructed

\* no host is being read
IdleCfg ==
  /\ cfgIn = [variant |-> "registry", attr |-> <<>>, width |-> BREAKPOINT, isThumbs |-> FALSE]
  /\ cfgOut = NotConstructed

\* registration reads the attribute and constructs the instance
Construct ==
  /\ ~cfgOut.done
  /\ cfgOut' = construct(cfgIn)
  /\ UNCHANGED cfgIn
  /\ UNCHANGED notCfg

NextCfg == Construct

\* the gallery variant is not loaded
IdleAxis ==
  /\ gCfg = [mainWrap |-> FALSE, thumbs |-> "none", initialSlide |-> 0, markup |-> PlainMarkup]
  /\ width = BREAKPOINT
  /\ lastDirection = getDirection(width)
  /\ resizeTimer = FALSE
  /\ instances = [g \in {"gal"} |-> NoRecord]
  /\ pool = <<>>
  /\ rafQueue = <<>>
  /\ lastRebuild = [K |-> -1, exists |-> FALSE, primary |-> -1]
  /\ lastAxisCall = "other"

\* the registry of theme-global.js is not loaded
IdleReg ==
  /\ present = {}
  /\ docOrder = <<"m1", "f1", "f2", "solo", "bad">>
  /\ moPending = FALSE
  /\ INST = {}
  /\ MASTERS = [g \in Groups |-> None]
  /\ SLAVES = [g \in Groups |-> <<>>]
  /\ PAIRED = {}
  /\ created = [h \in Hosts |-> 0]
  /\ driveSubs = [h \in Hosts |-> 0]
  /\ clickSubs = [h \in Hosts |-> 0]
  /\ wireCount = [g \in Groups |-> 0]
  /\ lastCall = <<"none", None>>
  /\ lastEvent = [host |-> None, drives |-> 0, wired |-> FALSE]

Init == InitReg /\ IdleAxis /\ IdleFs /\ IdleThr /\ IdleDrive /\ IdlePoll /\ IdleCfg /\ IdleUpd /\ IdleMap /\ IdleLate /\ IdleDrawer /\ IdleCart

Next == NextReg

Spec == Init /\ [][Next]_vars

InitA == InitAxis /\ IdleReg /\ IdleFs /\ IdleThr /\ IdleDrive /\ IdlePoll /\ IdleCfg /\ IdleUpd /\ IdleMap /\ IdleLate /\ IdleDrawer /\ IdleCart

SpecAxis == InitA /\ [][NextAxis]_vars

InitF == InitFsVars /\ WiredRegVars /\ IdleAxis /\ IdleThr /\ IdleDrive /\ IdlePoll /\ IdleCfg /\ IdleUpd /\ IdleMap /\ IdleLate /\ IdleDrawer /\ IdleCart

SpecFS == InitF /\ [][NextFs]_vars

InitT == ThrInit /\ IdleReg /\ IdleAxis /\ IdleFs /\ IdleDrive /\ IdlePoll /\ IdleCfg /\ IdleUpd /\ IdleMap /\ IdleLate /\ IdleDrawer /\ IdleCart

SpecThr == InitT /\ [][NextThr]_vars

InitD == InitDrive /\ WiredRegVars /\ IdleAxis /\ IdleFs /\ IdleThr /\ IdlePoll /\ IdleCfg /\ IdleUpd /\ IdleMap /\ IdleLate /\ IdleDrawer /\ IdleCart

SpecDrive == InitD /\ [][NextDrive]_vars

InitP == InitPoll /\ IdleReg /\ IdleAxis /\ IdleFs /\ IdleThr /\ IdleDrive /\ IdleCfg /\ IdleUpd /\ IdleMap /\ IdleLate /\ IdleDrawer /\ IdleCart

InitC == InitCfg /\ IdleReg /\ IdleAxis /\ IdleFs /\ IdleThr /\ IdleDrive /\ IdlePoll /\ IdleUpd /\ IdleMap /\ IdleLate /\ IdleDrawer /\ IdleCart

SpecCfg == InitC /\ [][NextCfg]_vars

InitM == InitMap /\ IdleReg /\ IdleAxis /\ IdleFs /\ IdleThr /\ IdleDrive /\ IdlePoll /\ IdleCfg /\ IdleUpd /\ IdleLate /\ IdleDrawer /\ IdleCart

SpecMap == InitM /\ [][NextMap]_vars

\* timers run when due and time passes
SpecSync == InitD /\ [][NextSync]_vars /\ WF_vars(SyncTimerFire) /\ WF_vars(DriveTick)

InitU == InitUpd /\ IdleReg /\ IdleAxis /\ IdleFs /\ IdleThr /\ IdleDrive /\ IdlePoll /\ IdleCfg /\ IdleMap /\ IdleLate /\ IdleDrawer /\ IdleCart

SpecUpd == InitU /\ [][NextUpd]_vars

\* a due timer runs
InitL == InitDrive /\ InitLate /\ WiredRegVars /\ IdleAxis /\ IdleFs /\ IdleThr /\ IdlePoll /\ IdleCfg /\ IdleUpd /\ IdleMap /\ IdleDrawer /\ IdleCart

SpecLate == InitL /\ [][NextLate]_vars

InitW == InitDrawer /\ IdleReg /\ IdleAxis /\ IdleFs /\ IdleThr /\ IdleDrive /\ IdlePoll /\ IdleCfg /\ IdleUpd /\ IdleMap /\ IdleLate /\ IdleCart

SpecDrawer == InitW /\ [][NextDrawer]_vars

InitK == InitCart /\ IdleReg /\ IdleAxis /\ IdleFs /\ IdleThr /\ IdleDrive /\ IdlePoll /\ IdleCfg /\ IdleUpd /\ IdleMap /\ IdleLate /\ IdleDrawer

SpecCart == InitK /\ [][NextCart]_vars

SpecPoll == InitP /\ [][NextPoll]_vars /\ WF_vars(PollAttempt)

\* ------------------------------------------------------------------------
\* Claims on the registry and the wiring (Spec)
\* ------------------------------------------------------------------------

\* C2: wiring is idempotent. Whatever the registrations and however many
\* times tryWire ran for a group, wirePair ran at most once for it, no
\* instance holds more than one drive handler per event, and an event of the
\* master of a wired group runs exactly one drive pass.
C2_WireOnce ==
  /\ \A g \in Groups : wireCount[g] <= 1
  /\ \A h \in Hosts : driveSubs[h] <= 1
  /\ lastEvent.wired => lastEvent.drives = 1

\* three wire attempts were made (master and two followers registered) and a
\* master event then ran its single drive pass
C2_Witness ==
  /\ {"m1", "f1", "f2"} \subseteq INST
  /\ lastEvent.host = "m1"
  /\ lastEvent.wired
  /\ lastEvent.drives = 1

\* C25: a group is in the wired set exactly when its master and at least one
\* follower are registered; until then wirePair has not run for it and
\* neither its master nor its followers carry a subscription.
C25_WiredIffBothSides ==
  \A g \in Groups :
    /\ (g \in PAIRED) <=> (MASTERS[g] # None /\ Len(SLAVES[g]) > 0)
    /\ (g \in PAIRED) <=> (wireCount[g] = 1)
    /\ g \notin PAIRED =>
          \A h \in Hosts : (HostId(h) = g \/ SlaveOf(h) = g)
                              => (driveSubs[h] = 0 /\ clickSubs[h] = 0)

\* the master was registered while a follower was already in the table, and
\* that registration wired the group
C25_Witness ==
  /\ lastCall = <<"initOne", "m1">>
  /\ INST = {"m1", "f1"}
  /\ "g1" \in PAIRED
  /\ driveSubs["m1"] = 1
  /\ clickSubs["f1"] = 1

\* C35: in a wired group every registered follower has its click handler,
\* whenever it registered.
C35_LateFollowerWired ==
  \A g \in PAIRED :
    \A k \in 1..Len(SLAVES[g]) : clickSubs[SLAVES[g][k]] = 1

\* C10: registering a host without a slide container changes neither the
\* instance registry, nor the master and follower tables, nor the wired set,
\* and constructs no engine instance.
C10_UnusableHostNoop ==
  [][\A h \in Hosts :
       (~HasWrapper(h) /\ lastCall' = <<"initOne", h>>)
          => UNCHANGED <<INST, MASTERS, SLAVES, PAIRED, created, driveSubs, clickSubs>>]_vars

\* the unusable host was registered while its group was populated
C10_Witness ==
  /\ lastCall = <<"initOne", "bad">>
  /\ "bad" \in present
  /\ "bad" \notin INST
  /\ created["bad"] = 0
  /\ MASTERS["g1"] = "m1"
  /\ SLAVES["g1"] # <<>>

\* ------------------------------------------------------------------------
\* Claims on the drive pass (SpecDrive)
\* ------------------------------------------------------------------------

\* C1: after a drive pass every follower slide whose logical index is in the
\* master's visible set carries the visible relation class, at most one
\* follower slide carries the primary relation class, and it is the slide
\* whose logical index is the master's primary logical index when the
\* follower has one.
C1_RelationClasses ==
  lastDrive.done =>
    /\ \A i \in SlidePos :
         logicalFromSlideEl(FollowerAttrs, i) \in logicalIndexSet(MasterAttrs, mOffset)
           => i \in fVisibleCls
    /\ Cardinality(fActiveCls) <= 1
    /\ \A i \in SlidePos :
         logicalFromSlideEl(FollowerAttrs, i) = primaryLogicalIndex(MasterAttrs, mOffset)
           => i \in fActiveCls

\* C6: a click on a follower slide while the follower carries no
\* synchronization marker asks the master for the slide whose logical index
\* is the clicked slide's logical index.
C6_ClickByLogical ==
  (lastClick.done /\ ~lastClick.syncing) =>
    lastClick.request =
      findIndexByLogical(MasterAttrs, logicalFromSlideEl(FollowerAttrs, lastClick.idx))

\* C7: a drive pass scrolls the follower exactly when no slide in the
\* follower's viewport has a logical index in the master's visible set, and
\* then to the slide of the lowest visible logical index. Stated for a
\* follower whose visible slide positions the engine publishes.
C7_ScrollWhenNoneShown ==
  (lastDrive.done /\ fWatch) =>
    /\ lastDrive.scrolled <=> ~lastDrive.shown
    /\ lastDrive.scrolled =>
         logicalFromSlideEl(FollowerAttrs, lastDrive.target) = MinOf(lastDrive.visibles)

\* C8: while a programmatic scroll of the follower is in flight the follower
\* carries the synchronization marker, and a click in that time asks the
\* master for nothing.
C8_MarkerCoversScroll ==
  /\ fScrollRem > 0 => syncing
  /\ (lastClick.done /\ lastClick.inFlight) => lastClick.request = -1

\* C23: a follower that carries the synchronization marker loses it again,
\* whether the scroll call started a scroll or threw.
C23_MarkerCleared == syncing ~> ~syncing

\* the scroll call threw: the marker is set, no scroll is in flight and the
\* timer that will clear the marker is pending
C23_Witness ==
  /\ syncing
  /\ lastDrive.scrolled
  /\ lastDrive.target = -1
  /\ fScrollRem = 0
  /\ syncTimers = <<DriveSpeed + SyncMargin>>

\* ------------------------------------------------------------------------
\* Claims on the index helpers (SpecMap)
\* ------------------------------------------------------------------------

\* the positions of the slides whose interval [start, start + size) meets the
\* viewport interval [offset, offset + viewport size) in more than a point
Overlaps(sw) ==
  {i \in SlidePos : slidesGrid(i) + SlideW > sw.offset
                      /\ slidesGrid(i) < sw.offset + ViewSize}

\* C28: the visible set is strictly ascending, holds exactly the logical
\* indices of the slides that overlap the viewport (a slide that only touches
\* an edge is not among them), and is empty for a destroyed instance.
C28_VisibleSetExact ==
  mapOut.fn = "visibleSet" =>
    LET v == mapOut.value
    IN IF mapSw.destroyed THEN v = <<>>
       ELSE /\ \A k \in 1..(Len(v) - 1) : v[k] < v[k + 1]
            /\ {v[k] : k \in 1..Len(v)} = {mapSw.attrs[i][1] : i \in Overlaps(mapSw)}

\* slides in reversed logical order, the first slide ending at the viewport's
\* start and the last beginning at its end: the two slides in between are
\* returned, in ascending order
C28_Witness ==
  /\ mapOut.fn = "visibleSet"
  /\ ~mapSw.destroyed
  /\ mapSw.attrs = assignSlideIndex(ReversedSlides)
  /\ mapSw.offset = SlideW
  /\ mapOut.value = <<DSlides - 3, DSlides - 2>>

\* the slides whose start is nearest to the scroll offset
Nearest(sw) ==
  {i \in SlidePos : \A k \in SlidePos :
     Dist(slidesGrid(i), sw.offset) <= Dist(slidesGrid(k), sw.offset)}

\* C29: for a live instance the primary index is the engine's real index in
\* wrap-around mode, and otherwise the lowest logical index among the slides
\* whose start is nearest to the scroll offset.
C29_PrimaryLowestLogical ==
  (mapOut.fn = "primaryIndex" /\ ~mapSw.destroyed) =>
    mapOut.value[1] = (IF mapSw.loop THEN mapSw.realIndex
                       ELSE MinOf({mapSw.attrs[i][1] : i \in Nearest(mapSw)}))

\* C30: the position returned is -1 exactly when no slide has the logical
\* index asked for; otherwise it is the first position whose slide has it.
C30_ResolveFirstMatch ==
  mapOut.fn = "resolve" =>
    LET pos == mapOut.value[1]
        L == mapOut.arg
    IN /\ (pos = -1) <=> (\A i \in SlidePos : mapSw.attrs[i][1] # L)
       /\ pos # -1 => /\ pos \in SlidePos
                       /\ mapSw.attrs[pos][1] = L
                       /\ \A k \in SlidePos : k < pos => mapSw.attrs[k][1] # L

\* two slides share logical index 0 and the first of them is returned
C30_Witness ==
  /\ mapOut = [fn |-> "resolve", arg |-> 0, value |-> <<0>>]
  /\ mapSw.attrs = assignSlideIndex(RepeatedSlides)

\* C32: a gallery main carousel built with the default configuration shows
\* one slide at a time when the viewport is narrower than the breakpoint, and
\* is auto-sized when the viewport is at or above it.
C32_NarrowOneSlide ==
  (/\ cfgOut.done
   /\ ~cfgOut.raised
   /\ cfgIn.variant = "gallery"
   /\ ~cfgIn.isThumbs
   /\ cfgIn.attr \in {<<>>, <<"{}">>})
    => IF cfgIn.width < BREAKPOINT
       THEN cfgOut.slidesPerView = <<"1">>
       ELSE cfgOut.slidesPerView = <<"auto">>

\* C34: when no slide of the follower has the master's first visible logical
\* index, a drive pass scrolls the follower nowhere and leaves its
\* synchronization marker and timers alone, and still sets the relation classes.
NoSlideFor(L) == \A i \in SlidePos : logicalFromSlideEl(FollowerAttrs, i) # L

C33_NothingAfterDestroy ==
  [][mDestroyed => UNCHANGED <<fVisibleCls, fActiveCls, fOffset>>]_vars

\* C31: after structure preparation the logical indices of an instance's
\* slides are pairwise different, and preparing the structure again changes
\* none of them.
C31_LogicalUnique ==
  /\ \A i, k \in SlidePos : i # k => mapSw.attrs[i][1] # mapSw.attrs[k][1]
  /\ assignSlideIndex(mapSw.attrs) = mapSw.attrs

\* ------------------------------------------------------------------------
\* Claims on the wait for the engine (SpecPoll)
\* ------------------------------------------------------------------------

\* C11: every poll ends. It calls its callback once, at the first attempt that
\* finds the engine, or it gives up with one warning after the capped number
\* of attempts and never calls the callback afterwards; no attempt is made
\* beyond the cap.
C11_PollTerminates ==
  /\ [](/\ poll.cb + poll.warned <= 1
        /\ poll.tries <= pollLimit + 1
        /\ ~poll.missed
        /\ (poll.cb = 1 \/ poll.warned = 1) => ~poll.due
        /\ poll.warned = 1 => poll.tries = pollLimit + 1)
  /\ <>(~poll.due)

\* the poll gave up and the engine arrived later
C11_Witness == poll.warned = 1 /\ poll.cb = 0 /\ swiperLoaded /\ ~poll.due

\* ------------------------------------------------------------------------
\* Claims on the configuration attribute (SpecCfg)
\* ------------------------------------------------------------------------

\* C12: for an attribute that is absent, empty, unparsable, or parses to a
\* non-object, registration raises nothing and constructs the instance as it
\* does for the empty configuration {}.
C12_MalformedFallsBack ==
  (cfgOut.done /\ cfgIn.attr \in {<<>>, <<"">>, <<"{oops">>, <<"null">>, <<"0">>}) =>
    /\ ~cfgOut.raised
    /\ cfgOut = construct([cfgIn EXCEPT !.attr = <<"{}">>])

\* ------------------------------------------------------------------------
\* Claims on the fullscreen presenter (SpecFS)
\* ------------------------------------------------------------------------

\* C3: fullscreen round trip. Once a close has restored the group (no anchor
\* is left and every element is back under a page parent), each page parent
\* has exactly the children, in the order, it had when the relocation started.
C3_RoundTrip ==
  (/\ lastFs.op = "close"
   /\ \A e \in FsEls : origParent[e] = None
   /\ \A e \in FsEls : parentOf(children, e) \in PageParents)
     => \A p \in PageParents : children[p] = preOpen[p]

\* the instances of the relation group of host h
GroupOf(h) == IF h \in FsEls THEN FsEls ELSE {h}

\* a fullscreen session of h's group is open: one of its hosts carries
\* is-fullscreen
GroupOpen(h) == GroupOf(h) \cap fsClass # {}

\* C16: an open that took effect, issued through the master or the follower
\* of the group, leaves the master and the follower in the group's overlay.
C16_OpenRelocatesGroup ==
  (lastFs.op = "open" /\ lastFs.sw \in FsEls)
     => \A e \in FsEls : parentOf(children, e) = regionOf("g1")

\* C17: an open on a group that is already open, through whichever of its
\* instances, changes no anchor, moves no element, adds no overlay and adds
\* no Escape listener.
C17_OpenWhenOpenNoop ==
  [][(lastFs'.op \in {"open", "open-noop"} /\ GroupOpen(lastFs'.sw))
       => UNCHANGED <<origParent, origNext, children, overlays, escListeners>>]_vars

\* C18: a close called on a group that is closed leaves the Escape listeners,
\* the handler slot, the body markers, the overlays and the elements alone.
C18_CloseWhenClosedNoop ==
  [][(lastFs'.op = "close" /\ ~GroupOpen(lastFs'.sw))
       => UNCHANGED <<escListeners, escHandler, bodyCls, overlays, children, fsClass>>]_vars

\* the fullscreen sessions that are open: one session marker on the body each
OpenSessions == bodyCls \ {"any"}

\* C19: the document carries as many Escape listeners as there are open
\* sessions, and none when every session is closed.
C19_NoEscLeak ==
  /\ Len(escListeners) = Cardinality(OpenSessions)
  /\ (OpenSessions = {} /\ fsClass = {}) => escListeners = <<>>

\* C20: whatever was opened and closed, and whatever discovery passes the
\* relocations caused, the registry is the one built before the first open:
\* same instances, same tables, same wired groups, every host created once.
C20_RegistryUntouched ==
  /\ Reg = WiredReg
  /\ \A h \in FsHosts : created[h] = 1

\* a discovery pass ran while the pair sat in the overlay and passed it over
C20_Witness ==
  /\ lastCall = <<"observer", "skipped">>
  /\ ~moPending
  /\ \A e \in FsEls : parentOf(children, e) = regionOf("g1")

\* the element sits in the content region of an overlay
InOverlay(e) == parentOf(children, e) \in {regionOf(id) : id \in overlays}

\* C26: an element carries an anchor exactly while it sits in an overlay, and
\* an anchor that is recorded is not replaced by another one: it stays as it
\* is until a close clears it.
C26_AnchorIffRelocated ==
  /\ [](\A e \in FsEls : (origParent[e] # None) <=> InOverlay(e))
  /\ [][\A e \in FsEls : (origParent[e] # None /\ origParent'[e] # None)
            => (origParent'[e] = origParent[e] /\ origNext'[e] = origNext[e])]_vars

\* the pair was relocated by an open through the master: both sit in the
\* group's overlay and carry the anchor of the place they came from
C26_Witness ==
  /\ lastFs = [op |-> "open", sw |-> "m1"]
  /\ \A e \in FsEls : InOverlay(e) /\ origParent[e] \in PageParents

\* ------------------------------------------------------------------------

\* the recorded sibling was no child of the recorded parent when the element
\* was put back
StaleAnchor(r) == r.next # None /\ ~InSeq(r.next, r.before)

\* C27: every element a close puts back lands immediately before its recorded
\* sibling when that is still a child of the recorded parent, and at the end
\* of the recorded parent when the sibling is gone or there was none.
C27_RestoreAtAnchor ==
  \A k \in 1..Len(lastRestore) :
    LET r == lastRestore[k]
    IN IF r.next # None /\ InSeq(r.next, r.before)
       THEN \E i \in 1..Len(r.before) :
              /\ r.before[i] = r.next
              /\ r.after = SubSeq(r.before, 1, i - 1) \o <<r.el>>
                              \o SubSeq(r.before, i, Len(r.before))
       ELSE r.after = Append(r.before, r.el)

\* a close put the master back while its recorded sibling, the follower, was
\* still in the overlay, and the follower back before its own sibling
C27_Witness ==
  /\ Len(lastRestore) = 2
  /\ StaleAnchor(lastRestore[1])
  /\ lastRestore[2].next # None
  /\ ~StaleAnchor(lastRestore[2])
  /\ \A e \in FsEls : parentOf(children, e) \in PageParents

\* ------------------------------------------------------------------------
\* Claims on the throttle (SpecThr)
\* ------------------------------------------------------------------------

C21_OnePerWindow ==
  [][(lastInv' # lastInv /\ lastInv.kind # "none")
       => /\ lastInv'.at - lastInv.at >= WaitTicks
          /\ lastInv'.kind = "trail" => lastInv'.args = lastInv'.recent]_vars

\* C24, for the throttle: a call leaves none of the timers pending that were
\* pending before it, and at most one timer is pending.
C24_CallClearsPending ==
  [][((thrTo' # thrTo) \/ (lastInv' # lastInv /\ lastInv'.kind = "lead"))
       => (thrTimers \cap thrTimers' = {} /\ Cardinality(thrTimers') <= 1)]_vars

\* ------------------------------------------------------------------------
\* Claims on the stable update (SpecUpd)
\* ------------------------------------------------------------------------

\* C22: at most one stable-update timer is pending for the instance; it is
\* pending exactly while calls wait, it is the one set by the last call and
\* is due one delay of that call after it; the timer that runs ends the burst
\* one delay after its last call with one recompute (none for an instance
\* that was destroyed meanwhile).
C22_OnePendingTimer ==
  /\ Cardinality(updTimers) <= 1
  /\ (updBurst.calls > 0) <=> (updTimers # {})
  /\ \A tm \in updTimers : tm.id = updTimer /\ tm.due = updBurst.at + updBurst.delay
  /\ lastUpd.kind = "fire" =>
        /\ lastUpd.calls >= 1
        /\ lastUpd.at = lastUpd.callAt + lastUpd.delay
        /\ lastUpd.recomputed = ~lastUpd.destroyed

\* three calls with different delays were made before the timer ran, and the
\* recompute ran once, one short delay after the third
C22_Witness ==
  /\ lastUpd.kind = "fire"
  /\ lastUpd.calls = 3
  /\ lastUpd.delay = 1
  /\ lastUpd.callAt >= 2
  /\ lastUpd.recomputed
  /\ updTimers = {}

\* C38: when a call of the burst asked for the lazy-load pass, the recompute
\* that ends the burst makes that pass.
C38_TouchNotLost ==
  (lastUpd.kind = "fire" /\ lastUpd.recomputed /\ lastUpd.asked) => lastUpd.touched

\* C39: whenever a drawer is the active drawer, it is not hidden and the body
\* carries the lock class. (There is one activeDrawer, so never two.)
C39_ActiveShownLocked ==
  activeDrawer # None => (~drHidden[activeDrawer] /\ drBodyLock)

\* C40: the flag is set exactly while one section fetch is running, and once
\* every change has been answered and no update runs, the rendered sections
\* show the server's cart (unless the last fetch failed).
C40_SingleFlightFresh ==
  /\ isUpdating <=> (cartFetch.phase # "none")
  /\ (cartAwait = 0 /\ ~isUpdating /\ ~cartFailed /\ cartSrv > 0)
        => cartRendered = cartSrv

\* ------------------------------------------------------------------------
\* Claims on the gallery variant (SpecAxis)
\* ------------------------------------------------------------------------

\* the group's main instance is live and has the axis the width implies
SameAxis ==
  /\ instances["gal"].set
  /\ instances["gal"].main # 0
  /\ ~pool[instances["gal"].main].destroyed
  /\ pool[instances["gal"].main].direction = getDirection(width)

\* C13: a debounced resize check or a direct reinit that finds the live axis
\* equal to the axis the viewport width implies destroys no instance, creates
\* none, schedules no rebuild and leaves the group's record as it is.
C13_SameAxisNoop ==
  [][(SameAxis /\ lastAxisCall' \in {"check", "reinit"}) =>
       UNCHANGED <<pool, instances, rafQueue>>]_vars

\* a debounced check ran while the live pair already had the axis of the width
C13_Witness ==
  /\ lastAxisCall = "check"
  /\ SameAxis
  /\ width # BREAKPOINT
  /\ Len(pool) = 2
  /\ rafQueue = <<>>

\* instances that are live, by handle
LiveHandles == {i \in 1..Len(pool) : ~pool[i].destroyed}

\* C14: once resizing has stopped and neither the debounced check nor a
\* rebuild frame is pending, nothing further will run by itself, so the group
\* must already be in its stable state: the recorded master and follower are
\* live and their axis is the one the viewport width implies.
C14_AxisConverges ==
  (instances["gal"].set /\ instances["gal"].main # 0 /\ ~resizeTimer /\ rafQueue = <<>>) =>
    \A h \in {instances["gal"].main, instances["gal"].thumbs} \ {0} :
      ~pool[h].destroyed /\ pool[h].direction = getDirection(width)

\* C15: for a gallery whose hosts both have their slide container, a reinit
\* request that arrives while a rebuild frame is pending schedules no second
\* rebuild: at most one frame is pending, no host has two live instances and
\* every live instance is the recorded main or thumbs.
C15_RebuildSerialized ==
  (gCfg.mainWrap /\ gCfg.thumbs # "nowrap") =>
    /\ Len(rafQueue) <= 1
    /\ \A a, b \in LiveHandles : pool[a].host = pool[b].host => a = b
    /\ LiveHandles \subseteq {instances["gal"].main, instances["gal"].thumbs}

\* C36: whenever the gallery has a record, its main is a live instance and
\* its thumbs is a live instance or none.
C36_LookupLive ==
  instances["gal"].set =>
    /\ instances["gal"].main # 0
    /\ ~pool[instances["gal"].main].destroyed
    /\ instances["gal"].thumbs # 0 => ~pool[instances["gal"].thumbs].destroyed

\* C37: whatever discovery passes have run, the thumbs host never carries
\* more than one live engine instance, and every live instance on it is the
\* recorded one.
C37_AllOrNothing ==
  rafQueue = <<>> =>
    /\ Cardinality({i \in LiveHandles : pool[i].host = "gt"}) <= 1
    /\ \A i \in LiveHandles :
         pool[i].host = "gt" => (instances["gal"].set /\ instances["gal"].thumbs = i)

\* C4: a rebuild that captured a live master on logical index K leaves the
\* rebuilt master on logical index K whenever a slide with that index exists.
C4_AxisKeepsPrimary ==
  (lastRebuild.K >= 0 /\ lastRebuild.exists) => lastRebuild.primary = lastRebuild.K

\* C9: as long as only discovery passes have run (no rebuild was requested),
\* no host carries more than one engine instance.
C9_OneInstancePerHost ==
  (rafQueue = <<>> /\ \A i \in 1..Len(pool) : ~pool[i].destroyed)
     => \A h \in {"gm", "gt"} :
          Cardinality({i \in 1..Len(pool) : pool[i].host = h}) <= 1

====
